---- MODULE Spec2Model ----
(***************************************************************************)
(* A model of infini_prompt/prompt_generator.py: the bracket scanner, the  *)
(* recursive resolver, the operator dispatcher, the selection registers    *)
(* and the generation orchestrator (generate_prompt and its wrapper).      *)
(*                                                                         *)
(* Python strings are TLA+ strings; positions are 1-based (Python's are    *)
(* 0-based) and a position of 0 stands for Python's -1 ("not found").      *)
(* A Python dict is a function whose DOMAIN is its key set.  A data value  *)
(* is [str |-> s] for a Python str and [list |-> <<...>>] for a list.      *)
(***************************************************************************)
EXTENDS Integers, Sequences, FiniteSets, TLC

(***************************************************************************)
(* String primitives of the Python runtime                                 *)
(***************************************************************************)

\* s[i] of a Python string (1-based here)
CharAt(s, i) == SubSeq(s, i, i)

\* str.find(sub, start): the first position >= start where sub occurs, 0 if none
Find(s, sub, start) ==
    LET hits == {i \in start..(Len(s) - Len(sub) + 1) : SubSeq(s, i, i + Len(sub) - 1) = sub}
    IN  IF hits = {} THEN 0 ELSE CHOOSE i \in hits : \A j \in hits : i <= j

\* sub in s
Contains(s, sub) == Find(s, sub, 1) # 0

\* str.startswith / str.endswith
StartsWith(s, p) == Len(s) >= Len(p) /\ SubSeq(s, 1, Len(p)) = p
EndsWith(s, p) == Len(s) >= Len(p) /\ SubSeq(s, Len(s) - Len(p) + 1, Len(s)) = p

\* the whitespace characters str.strip() removes (those the templates use)
Whitespace == {" ", "\n", "\t"}

\* str.strip(): from the first to the last non-whitespace character
Strip(s) ==
    LET keep == {i \in 1..Len(s) : CharAt(s, i) \notin Whitespace}
    IN  IF keep = {} THEN ""
        ELSE SubSeq(s, CHOOSE i \in keep : \A j \in keep : i <= j,
                       CHOOSE i \in keep : \A j \in keep : i >= j)

\* str.split(sep): always at least one part
RECURSIVE Split(_, _)
Split(s, sep) ==
    LET i == Find(s, sep, 1)
    IN  IF i = 0 THEN <<s>>
        ELSE <<SubSeq(s, 1, i - 1)>> \o Split(SubSeq(s, i + Len(sep), Len(s)), sep)

\* str.partition(sep): <<head, sep, tail>>, or <<s, "", "">> when sep is absent
Partition(s, sep) ==
    LET i == Find(s, sep, 1)
    IN  IF i = 0 THEN <<s, "", "">>
        ELSE <<SubSeq(s, 1, i - 1), sep, SubSeq(s, i + Len(sep), Len(s))>>

\* str.replace(old, new, 1): the first occurrence only
ReplaceFirst(s, old, new) ==
    LET i == Find(s, old, 1)
    IN  IF i = 0 THEN s
        ELSE SubSeq(s, 1, i - 1) \o new \o SubSeq(s, i + Len(old), Len(s))

\* str.replace(old, new): every occurrence, left to right, non-overlapping
RECURSIVE ReplaceAll(_, _, _)
ReplaceAll(s, old, new) ==
    LET i == Find(s, old, 1)
    IN  IF i = 0 THEN s
        ELSE SubSeq(s, 1, i - 1) \o new \o ReplaceAll(SubSeq(s, i + Len(old), Len(s)), old, new)

Digits == {"0", "1", "2", "3", "4", "5", "6", "7", "8", "9"}

\* str.isdigit(): non-empty and all decimal digits
IsDigit(s) == s # "" /\ \A i \in 1..Len(s) : CharAt(s, i) \in Digits

DigitVal(c) ==
    CASE c = "0" -> 0 [] c = "1" -> 1 [] c = "2" -> 2 [] c = "3" -> 3 [] c = "4" -> 4
      [] c = "5" -> 5 [] c = "6" -> 6 [] c = "7" -> 7 [] c = "8" -> 8 [] c = "9" -> 9

\* int(s) of a digit string
RECURSIVE ParseNat(_)
ParseNat(s) ==
    IF s = "" THEN 0
    ELSE 10 * ParseNat(SubSeq(s, 1, Len(s) - 1)) + DigitVal(CharAt(s, Len(s)))

DigitChar(d) ==
    CASE d = 0 -> "0" [] d = 1 -> "1" [] d = 2 -> "2" [] d = 3 -> "3" [] d = 4 -> "4"
      [] d = 5 -> "5" [] d = 6 -> "6" [] d = 7 -> "7" [] d = 8 -> "8" [] d = 9 -> "9"

\* str(n) of a natural number
RECURSIVE NatStr(_)
NatStr(n) == IF n < 10 THEN DigitChar(n) ELSE NatStr(n \div 10) \o DigitChar(n % 10)

(***************************************************************************)
(* Argument escaping                                                       *)
(***************************************************************************)

\* the (char, escape) pairs in dict insertion order
ESCAPE_MAPPINGS ==
    << <<"|", "&pipe;">>, <<"{", "&lbrace;">>, <<"}", "&rbrace;">>,
       <<",", "&comma;">>, <<"&", "&amp;">> >>

RECURSIVE EscapeFrom(_, _)
EscapeFrom(text, k) ==
    IF k > Len(ESCAPE_MAPPINGS) THEN text
    ELSE EscapeFrom(ReplaceAll(text, ESCAPE_MAPPINGS[k][1], ESCAPE_MAPPINGS[k][2]), k + 1)

\* an intake that binds argument values as they are
escape_nothing(text) == text

escape_special_characters(text) == EscapeFrom(text, 1)

RECURSIVE UnescapeFrom(_, _)
UnescapeFrom(text, k) ==
    IF k > Len(ESCAPE_MAPPINGS) THEN text
    ELSE UnescapeFrom(ReplaceAll(text, ESCAPE_MAPPINGS[k][2], ESCAPE_MAPPINGS[k][1]), k + 1)

unescape_special_characters(text) == UnescapeFrom(text, 1)

(***************************************************************************)
(* Expression scanner                                                      *)
(***************************************************************************)

\* the number of '{' minus the number of '}' among characters from..to: the
\* size the bracket stack has after them if it never ran empty on a '}'
StackSize(prompt, from, to) ==
    Cardinality({i \in from..to : CharAt(prompt, i) = "{"})
        - Cardinality({i \in from..to : CharAt(prompt, i) = "}"})

\* validate_bracets: "" when balanced, else the message of the PromptError
\* raised: a '}' that meets an empty stack, or a '{' left on the stack at the end
validate_bracets(prompt) ==
    IF \E i \in 1..Len(prompt) : StackSize(prompt, 1, i) < 0
    THEN "Unmatched closing bracket"
    ELSE IF StackSize(prompt, 1, Len(prompt)) > 0
    THEN "Unmatched opening bracket"
    ELSE ""

\* eat_next_bracets: the content of the span opened by the first '{', up to the
\* '}' that empties the stack; "" if there is no '{' or the span is never closed
eat_next_bracets(prompt) ==
    LET start_index == Find(prompt, "{", 1)
        closes == {idx \in start_index..Len(prompt) :
                      CharAt(prompt, idx) = "}" /\ StackSize(prompt, start_index, idx) = 0}
    IN  IF start_index = 0 \/ closes = {} THEN ""
        ELSE SubSeq(prompt, start_index + 1, (CHOOSE i \in closes : \A j \in closes : i <= j) - 1)

(***************************************************************************)
(* The random module.  Python's generator is one process-wide object: its  *)
(* state is a number here, random.seed(a) sets it from the seed alone and  *)
(* every draw advances it by a fixed permutation, so a stream of draws is  *)
(* a function of the seed and of the number of draws made since seeding.   *)
(***************************************************************************)
RngMod == 101
RngMul == 37
RngInc == 11

\* random.seed(seed): the generator state after seeding
random_seed(seed) == seed % RngMod

\* the generator state after one more draw
RngNext(r) == (RngMul * r + RngInc) % RngMod

(***************************************************************************)
(* Resolution state and results of the resolver's functions                *)
(*                                                                         *)
(* st.data, st.static, st.usage are state["data"], state["static"] and     *)
(* state["usage"]; st.rng is the state of the random module; st.draws      *)
(* counts the draws made since the pass began (a history variable).        *)
(* A function returns [kind, msg, out, st]: kind "ok" with the returned    *)
(* text, or the class of the exception raised with its message.            *)
(***************************************************************************)
Ok(out, st) == [kind |-> "ok", msg |-> "", out |-> out, st |-> st]
Raise(kind, msg, st) == [kind |-> kind, msg |-> msg, out |-> "", st |-> st]
PromptError(msg, st) == Raise("PromptError", msg, st)

\* what follows a call that may raise: a result that is not "ok" is the
\* exception on its way up, and nothing after the call runs
Then(r, F(_)) == IF r.kind # "ok" THEN r ELSE F(r)

\* a local name for a value
With(v, F(_)) == F(v)

IsStr(v) == "str" \in DOMAIN v
IsList(v) == "list" \in DOMAIN v

EmptyDict == [k \in {} |-> ""]

\* d[k] = v on a dict
DictSet(d, k, v) == (k :> v) @@ d

\* d.get(k, default)
DictGet(d, k, default) == IF k \in DOMAIN d THEN d[k] ELSE default

\* x in lst
InList(x, lst) == \E i \in 1..Len(lst) : lst[i] = x

\* [x for x in lst if x not in excluded]
RECURSIVE Without(_, _)
Without(lst, excluded) ==
    IF lst = <<>> THEN <<>>
    ELSE (IF InList(Head(lst), excluded) THEN <<>> ELSE <<Head(lst)>>) \o Without(Tail(lst), excluded)

\* One draw from the random module.  A pass that runs alone draws from the
\* generator itself (st.live).  A pass that runs as a thread beside others is
\* evaluated over the numbers the generator handed to it so far (st.tape); when
\* they run out the evaluation is marked st.starved and its result is void.
NextRaw(st) ==
    IF st.live THEN [raw |-> RngNext(st.rng),
                     st  |-> [st EXCEPT !.rng = RngNext(st.rng), !.draws = @ + 1]]
    ELSE IF st.tape # <<>> THEN [raw |-> Head(st.tape),
                                 st  |-> [st EXCEPT !.tape = Tail(st.tape), !.draws = @ + 1]]
    ELSE [raw |-> 0, st |-> [st EXCEPT !.starved = TRUE]]

\* random.choice(seq) on a non-empty sequence: the value and the state after
random_choice(seq, st) ==
    LET n == NextRaw(st)
    IN  [val |-> seq[(n.raw % Len(seq)) + 1], st |-> n.st]

\* random.randint(lo, hi)
random_randint(lo, hi, st) ==
    LET n == NextRaw(st)
    IN  [val |-> lo + (n.raw % (hi - lo + 1)), st |-> n.st]

\* the interpreter's recursion limit, scaled to the templates of the model:
\* a call deeper than this raises RecursionError
RecursionLimit == 24

RECURSIVE process_prompt(_, _, _, _)
RECURSIVE ProcessLoop(_, _, _)
RECURSIVE resolve_operator(_, _, _)
RECURSIVE select_normal(_, _, _)
RECURSIVE select_exclusive(_, _, _, _)
RECURSIVE select_static(_, _, _, _)
RECURSIVE operator_one_of(_, _, _)
RECURSIVE operator_store(_, _, _, _, _)
RECURSIVE operator_track(_, _, _, _)
RECURSIVE operator_repeat(_, _, _, _)
RECURSIVE optional_operator(_, _, _, _)
RECURSIVE operator_ignore(_, _, _)
RECURSIVE operator_error(_, _, _, _)
RECURSIVE operator_equals(_, _, _, _, _, _, _)
RECURSIVE operator_greater(_, _, _, _, _, _, _, _)
RECURSIVE operator_in(_, _, _, _, _, _, _)
RECURSIVE operator_has(_, _, _, _, _, _, _)
RECURSIVE operator_case(_, _, _, _, _, _)
RECURSIVE selector_except(_, _, _, _, _)
RECURSIVE ProcessEach(_, _, _, _)
RECURSIVE Coalesce(_, _, _)

(***************************************************************************)
(* Selection subsystem                                                     *)
(***************************************************************************)
select_normal(name, st, d) ==
    IF Contains(name, "{") THEN process_prompt(name, st, FALSE, d + 1)
    ELSE IF name \notin DOMAIN st.data THEN PromptError("Selection key not found", st)
    ELSE With(st.data[name], LAMBDA options :
         IF IsStr(options) THEN
             (IF Contains(options.str, "{")
              THEN process_prompt(options.str, st, FALSE, d + 1)
              ELSE Ok(options.str, st))
         ELSE IF ~IsList(options) \/ options.list = <<>> THEN
             PromptError("Selection key must be a non-empty list", st)
         ELSE With(random_choice(options.list, st), LAMBDA c :
              IF Contains(c.val, "{")
              THEN process_prompt(c.val, c.st, FALSE, d + 1)
              ELSE Ok(c.val, c.st)))

\* state["usage"][name_prefix].append(selected), the entry made on first use
Used(st, name_prefix, selected) ==
    [st EXCEPT !.usage = DictSet(@, name_prefix, Append(DictGet(@, name_prefix, <<>>), selected))]

\* the ledger is cleared when it leaves no option
ClearedWhenFull(st, name_prefix, options) ==
    IF Without(options, DictGet(st.usage, name_prefix, <<>>)) = <<>>
    THEN [st EXCEPT !.usage = DictSet(@, name_prefix, <<>>)]
    ELSE st

select_exclusive(name, st, prefix, d) ==
    IF name \notin DOMAIN st.data THEN PromptError("Exclusive selection key not found", st)
    ELSE With(st.data[name], LAMBDA options :
         IF IsStr(options) THEN select_normal(name, st, d + 1)
         ELSE IF ~IsList(options) \/ options.list = <<>> THEN
             PromptError("Exclusive selection key must be a non-empty list", st)
         ELSE With(ClearedWhenFull(st, prefix \o name, options.list), LAMBDA st1 :
              With(random_choice(Without(options.list, DictGet(st1.usage, prefix \o name, <<>>)), st1),
                   LAMBDA c :
                   IF Contains(c.val, "{")
                   THEN process_prompt(c.val, Used(c.st, prefix \o name, c.val), FALSE, d + 1)
                   ELSE Ok(c.val, Used(c.st, prefix \o name, c.val)))))

\* a memoized reference that picks anew on every use
select_static_uncached(name, st, prefix, d) == select_normal(name, st, d + 1)

select_static(name, st, prefix, d) ==
    IF (prefix \o name) \in DOMAIN st.static THEN Ok(st.static[prefix \o name], st)
    ELSE Then(select_normal(name, st, d + 1), LAMBDA r :
              Ok(r.out, [r.st EXCEPT !.static = DictSet(@, prefix \o name, r.out)]))

(***************************************************************************)
(* Operator handlers                                                       *)
(***************************************************************************)

\* [v.strip() for v in lst]
StripAll(lst) == [i \in 1..Len(lst) |-> Strip(lst[i])]

\* parts[i] if len(parts) > i else "" (i is Python's 0-based index)
PartOr(parts, i, default) == IF Len(parts) > i THEN parts[i + 1] ELSE default

\* float(s) on the numerals the templates use: optional sign, decimal digits
ParseNumber(s) ==
    LET t == Strip(s)
        neg == StartsWith(t, "-")
        body == IF StartsWith(t, "-") \/ StartsWith(t, "+") THEN SubSeq(t, 2, Len(t)) ELSE t
    IN  IF IsDigit(body)
        THEN [ok |-> TRUE, val |-> IF neg THEN 0 - ParseNat(body) ELSE ParseNat(body)]
        ELSE [ok |-> FALSE, val |-> 0]

operator_maybe(text, chance, st) ==
    With(random_randint(1, 100, st), LAMBDA r :
         IF r.val <= chance THEN Ok(Strip(text), r.st) ELSE Ok("", r.st))

operator_equals(key, compare_value, st, value_if_true, value_if_false, negative, d) ==
    Then(select_normal(Strip(key), st, d + 1), LAMBDA r :
         IF (r.out = Strip(compare_value)) # negative
         THEN Ok(value_if_true, r.st)
         ELSE Ok(value_if_false, r.st))

\* the comparison of operator_greater on two parsed numbers
Compared(left_number, right_number, negative, exact) ==
    LET cmp == IF exact THEN left_number >= right_number ELSE left_number > right_number
    IN  IF negative THEN ~cmp ELSE cmp

operator_greater(key, compare_value, st, value_if_true, value_if_false, negative, exact, d) ==
    Then(select_normal(Strip(key), st, d + 1), LAMBDA r :
         With(ParseNumber(r.out), LAMBDA left_number :
         With(ParseNumber(Strip(compare_value)), LAMBDA right_number :
              IF ~left_number.ok \/ ~right_number.ok
              THEN PromptError("Cannot compare non-numeric values", r.st)
              ELSE Ok(IF Compared(left_number.val, right_number.val, negative, exact)
                      THEN value_if_true ELSE value_if_false, r.st))))

operator_in(key, list_value, st, value_if_true, value_if_false, negative, d) ==
    Then(select_normal(Strip(key), st, d + 1), LAMBDA r :
         IF InList(r.out, StripAll(Split(Strip(list_value), ","))) # negative
         THEN Ok(value_if_true, r.st)
         ELSE Ok(value_if_false, r.st))

\* all(sub in selected_value for sub in substring_list)
HasAll(selected_value, substring_list) ==
    \A i \in 1..Len(substring_list) : Contains(selected_value, substring_list[i])

operator_has(key, substrings, st, value_if_true, value_if_false, negative, d) ==
    Then(select_normal(Strip(key), st, d + 1), LAMBDA r :
         IF HasAll(r.out, StripAll(Split(Strip(substrings), ","))) # negative
         THEN Ok(value_if_true, r.st)
         ELSE Ok(value_if_false, r.st))

\* the first case value contained in the selected text, behind the prefix
FirstCase(selected, prefix, default, case_values) ==
    LET hits == {i \in 1..Len(case_values) : Contains(selected, case_values[i])}
    IN  IF hits = {} THEN default
        ELSE prefix \o case_values[CHOOSE i \in hits : \A j \in hits : i <= j]

operator_case(text, st, prefix, default, case_values, d) ==
    Then(select_normal(text, st, d + 1), LAMBDA r :
         Ok(FirstCase(r.out, prefix, default, case_values), r.st))

operator_one_of(text, st, d) ==
    With(random_choice(StripAll(Split(text, "|")), st), LAMBDA c :
         IF Contains(c.val, "{")
         THEN process_prompt(c.val, c.st, FALSE, d + 1)
         ELSE Ok(c.val, c.st))

\* a repeat that returns its text once
operator_repeat_once(text, count, st, d) ==
    IF count > 256 THEN PromptError("Repeat operator count exceeds maximum of 256", st)
    ELSE IF count <= 0 THEN Ok("", st)
    ELSE IF Contains(text, "{") THEN process_prompt(text, st, FALSE, d + 1) ELSE Ok(text, st)

operator_repeat(text, count, st, d) ==
    IF count > 256 THEN PromptError("Repeat operator count exceeds maximum of 256", st)
    ELSE IF count <= 0 THEN Ok("", st)
    ELSE Then(IF Contains(text, "{") THEN process_prompt(text, st, FALSE, d + 1) ELSE Ok(text, st),
              LAMBDA part :
              Then(operator_repeat(text, count - 1, part.st, d), LAMBDA rest :
                   Ok(part.out \o rest.out, rest.st)))

operator_store(key, text, st, prefix, d) ==
    Then(IF Contains(text, "{") THEN process_prompt(text, st, FALSE, d + 1) ELSE Ok(text, st),
         LAMBDA r : Ok("", [r.st EXCEPT !.static = DictSet(@, prefix \o key, r.out)]))

operator_track(text, track_name, st, d) ==
    Then(IF Contains(text, "{") THEN process_prompt(text, st, FALSE, d + 1) ELSE Ok(text, st),
         LAMBDA r : Ok(r.out, [r.st EXCEPT !.data = DictSet(@, "track_" \o track_name, [str |-> r.out])]))

optional_operator(key, default, st, d) ==
    IF key \notin DOMAIN st.data
    THEN (IF Contains(default, "{") THEN process_prompt(default, st, FALSE, d + 1)
                                    ELSE Ok(default, st))
    ELSE select_normal(key, st, d + 1)

operator_error(text, compare_value, st, d) ==
    Then(select_normal(Strip(text), st, d + 1), LAMBDA r :
         IF r.out = Strip(compare_value)
         THEN PromptError("Error operator triggered", r.st)
         ELSE Ok("", r.st))

operator_ignore(text, st, d) ==
    Then(IF Contains(text, "{") THEN process_prompt(text, st, FALSE, d + 1) ELSE Ok(text, st),
         LAMBDA r : Ok("", r.st))

\* [opt if "{" not in opt else process_prompt(opt, state) for opt in lst]:
\* out is the list of results
ProcessEach(lst, acc, st, d) ==
    IF lst = <<>> THEN Ok(acc, st)
    ELSE Then(IF Contains(Head(lst), "{") THEN process_prompt(Head(lst), st, FALSE, d + 1)
                                          ELSE Ok(Head(lst), st),
              LAMBDA r : ProcessEach(Tail(lst), Append(acc, r.out), r.st, d))

\* a data value as a list: a str is a one-element list
AsList(v) == IF IsStr(v) THEN <<v.str>> ELSE v.list

\* [opt for opt in lst if opt.strip()]
RECURSIVE NonBlank(_)
NonBlank(lst) ==
    IF lst = <<>> THEN <<>>
    ELSE (IF Strip(Head(lst)) # "" THEN <<Head(lst)>> ELSE <<>>) \o NonBlank(Tail(lst))

\* the options to exclude: the comma-separated keys, or the list under the key
ExcludeOptions(exclude_key, data) ==
    NonBlank(IF Contains(exclude_key, ",") THEN Split(exclude_key, ",")
             ELSE AsList(data[exclude_key]))

\* the choice of selector_except among the options left
ExceptChoice(filtered_options, default, st, d) ==
    IF filtered_options = <<>>
    THEN (IF Contains(default, "{") THEN process_prompt(default, st, FALSE, d + 1)
                                    ELSE Ok(default, st))
    ELSE With(random_choice(filtered_options, st), LAMBDA c : Ok(c.val, c.st))

\* selector_except on the stripped key and exclude key
ExceptStripped(key, exclude_key, st, default, d) ==
    IF key \notin DOMAIN st.data THEN PromptError("Selection key not found", st)
    ELSE IF ~Contains(exclude_key, ",") /\ exclude_key \notin DOMAIN st.data
         THEN PromptError("Exclude selection key not found", st)
    ELSE IF AsList(st.data[key]) = <<>>
         THEN PromptError("Selection key must be a non-empty list", st)
    ELSE Then(ProcessEach(AsList(st.data[key]), <<>>, st, d), LAMBDA options :
         Then(ProcessEach(ExcludeOptions(exclude_key, options.st.data), <<>>, options.st, d),
              LAMBDA options_exclude :
              ExceptChoice(Without(options.out, options_exclude.out), default,
                           options_exclude.st, d)))

selector_except(key, exclude_key, st, default, d) ==
    ExceptStripped(Strip(key), Strip(exclude_key), st, default, d)

\* the coalesce loop: the first part whose process_prompt result is non-empty
Coalesce(parts, st, d) ==
    IF parts = <<>> THEN Ok("", st)
    ELSE Then(process_prompt(Strip(Head(parts)), st, FALSE, d + 1), LAMBDA r :
              IF r.out # "" THEN r ELSE Coalesce(Tail(parts), r.st, d))

(***************************************************************************)
(* Operator dispatcher                                                     *)
(***************************************************************************)
EQUAL_OPERATORS == {"==", "=", "equals", "eq"}
INEQUAL_OPERATORS == {"!=", "not_equals", "neq", "<>"}
GREATER_OPERATORS == {">", "gt"}
LESS_OPERATORS == {"<", "lt"}
GREATER_EQUAL_OPERATORS == {">=", "gte"}
LESS_EQUAL_OPERATORS == {"<=", "lte"}
EQUALITY_OPERATORS == EQUAL_OPERATORS \cup INEQUAL_OPERATORS
QUANTITATIVE_OPERATORS ==
    GREATER_OPERATORS \cup LESS_OPERATORS \cup GREATER_EQUAL_OPERATORS \cup LESS_EQUAL_OPERATORS
ONE_OF_OPERATORS == {"one_of", "choice", "select", "any", "any_of", "pick_one"}
STORE_OPERATORS == {"set", "store", ":="}
REPEAT_OPERATORS == {"repeat", "x"}
MAYBE_OPERATORS == {"maybe", "?"}
IN_OPERATOR == {"in", "not_in"}
HAS_OPERATOR == {"has", "not_has"}
TRACK_OPERATORS == {"track", "tk"}
OPTIONAL_OPERATORS == {"optional", "opt"}
IGNORE_OPERATORS == {"ignore", "ign", "empty"}
COMMENT_OPERATORS == {"comment", "//"}
OPERATOR_CASE == "case"
OPERATOR_EVAL == "*"
OPERATOR_ERROR == "error"
OPERATOR_COALESCE == "!"
OPERATOR_EXCEPT == "^"
OPERATOR_LITERAL == "#"

\* str.rpartition(sep)[0]: the text before the last sep ("" when sep is absent)
RECURSIVE RPartitionHead(_, _)
RPartitionHead(s, sep) ==
    IF s = "" THEN ""
    ELSE IF EndsWith(s, sep) THEN SubSeq(s, 1, Len(s) - Len(sep))
    ELSE RPartitionHead(SubSeq(s, 1, Len(s) - 1), sep)

\* the chance of {maybe:...}: the part before "|", the digits before "?", or 50
Chance(operator, argument) ==
    IF Contains(argument, "|") THEN ParseNat(Strip(Split(argument, "|")[1]))
    ELSE IF IsDigit(SubSeq(operator, 1, Len(operator) - 1))
         THEN ParseNat(SubSeq(operator, 1, Len(operator) - 1))
    ELSE 50

\* the branch of resolve_operator for {maybe:...}, {?:...}, {NN?:...}
ResolveMaybe(operator, argument, st, d) ==
    IF StartsWith(argument, "{") THEN
        Then(process_prompt(argument, st, FALSE, d + 1), LAMBDA r :
             operator_maybe("{#:" \o r.out \o "}", 50, r.st))
    ELSE IF Contains(argument, "|") /\ ~IsDigit(Strip(Split(argument, "|")[1]))
    THEN PromptError("Chance value must be an integer", st)
    ELSE With(IF Contains(argument, "|") THEN Strip(Split(argument, "|")[2]) ELSE argument,
              LAMBDA key_part :
              Then(IF Contains(key_part, "{") THEN process_prompt(key_part, st, FALSE, d + 1)
                                              ELSE Ok(key_part, st),
                   LAMBDA r : operator_maybe(r.out, Chance(operator, argument), r.st)))

\* the branch of resolve_operator for an all-digit operator: {N:key|default}
ResolveIndex(index, key, default_value, st, d) ==
    IF key \notin DOMAIN st.data THEN PromptError("Index selection key not found", st)
    ELSE With(AsList(st.data[key]), LAMBDA options :
         IF index < Len(options)
         THEN (IF Contains(options[index + 1], "{")
               THEN process_prompt(options[index + 1], st, FALSE, d + 1)
               ELSE Ok(options[index + 1], st))
         ELSE Ok(default_value, st))

\* the branches of resolve_operator that take key|value|true|false
ResolveBranching(operator, parts, st, d) ==
    IF Len(parts) < 2 THEN PromptError("Operator requires at least key|value format", st)
    ELSE IF operator \in EQUALITY_OPERATORS THEN
        operator_equals(Strip(parts[1]), Strip(parts[2]), st, PartOr(parts, 2, ""),
                        PartOr(parts, 3, ""), operator \in INEQUAL_OPERATORS, d + 1)
    ELSE IF operator \in QUANTITATIVE_OPERATORS THEN
        operator_greater(Strip(parts[1]), Strip(parts[2]), st, PartOr(parts, 2, ""),
                         PartOr(parts, 3, ""),
                         operator \in {"<", "lt", "<=", "lte"},
                         operator \in {">=", "gte", "<=", "lte"}, d + 1)
    ELSE IF operator \in IN_OPERATOR THEN
        operator_in(Strip(parts[1]), Strip(parts[2]), st, PartOr(parts, 2, ""),
                    PartOr(parts, 3, ""), operator = "not_in", d + 1)
    ELSE
        operator_has(Strip(parts[1]), Strip(parts[2]), st, PartOr(parts, 2, ""),
                     PartOr(parts, 3, ""), operator = "not_has", d + 1)

\* operator in STORE_OPERATORS or operator.endswith(",<store operator>")
IsStoreOperator(operator) ==
    \/ operator \in STORE_OPERATORS
    \/ \E op \in STORE_OPERATORS : EndsWith(operator, "," \o op)

\* the chain of tests of resolve_operator on "operator:argument", parts being
\* argument.split("|")
Dispatch(operator, argument, parts, st, d) ==
    IF operator \in ONE_OF_OPERATORS THEN operator_one_of(argument, st, d + 1)
    ELSE IF EndsWith(operator, "@") THEN
        select_exclusive(Strip(argument), st, SubSeq(operator, 1, Len(operator) - 1), d + 1)
    ELSE IF EndsWith(operator, "$") THEN
        select_static(Strip(argument), st, SubSeq(operator, 1, Len(operator) - 1), d + 1)
    ELSE IF operator = OPERATOR_LITERAL THEN
        (IF Contains(argument, "{") \/ Contains(argument, "}")
         THEN PromptError("Literal operator '#' cannot contain '{' or '}' characters", st)
         ELSE Ok(argument, st))
    ELSE IF operator = OPERATOR_ERROR THEN
        (IF Len(parts) < 2 THEN PromptError("Error operator requires key|value format", st)
         ELSE operator_error(Strip(parts[1]), Strip(parts[2]), st, d + 1))
    ELSE IF operator \in EQUALITY_OPERATORS \cup QUANTITATIVE_OPERATORS
                         \cup IN_OPERATOR \cup HAS_OPERATOR THEN
        ResolveBranching(operator, parts, st, d)
    ELSE IF operator = OPERATOR_CASE THEN
        operator_case(parts[1], st,
                      IF Contains(argument, "|") THEN PartOr(parts, 1, "") ELSE "",
                      IF Contains(argument, "|") THEN PartOr(parts, 2, "") ELSE "",
                      IF Contains(argument, "|") /\ Len(parts) >= 4
                          THEN StripAll(Split(parts[4], ",")) ELSE <<>>,
                      d + 1)
    ELSE IF operator = OPERATOR_EVAL THEN select_normal(Strip(argument), st, d + 1)
    ELSE IF operator = OPERATOR_COALESCE THEN
        (IF Len(parts) < 2 THEN PromptError("Coalesce operator requires key|value format", st)
         ELSE Coalesce(parts, st, d))
    ELSE IF IsDigit(operator) THEN
        ResolveIndex(ParseNat(operator), Strip(parts[1]), PartOr(parts, 1, ""), st, d)
    ELSE IF operator = OPERATOR_EXCEPT THEN
        (IF Len(parts) < 2 THEN PromptError("Except operator requires key|exclude_value format", st)
         ELSE selector_except(Strip(parts[1]), Strip(parts[2]), st, PartOr(parts, 2, ""), d + 1))
    ELSE IF operator \in MAYBE_OPERATORS \/ EndsWith(operator, "?") THEN
        ResolveMaybe(operator, Strip(argument), st, d)
    ELSE IF operator \in REPEAT_OPERATORS THEN
        (IF Len(parts) < 2 THEN PromptError("Repeat operator requires count|text format", st)
         ELSE IF ~IsDigit(Strip(parts[1])) THEN PromptError("Repeat count must be an integer", st)
         ELSE operator_repeat(parts[2], ParseNat(Strip(parts[1])), st, d + 1))
    ELSE IF IsStoreOperator(operator) THEN
        (IF Len(parts) < 2 THEN PromptError("Store operator requires key|text format", st)
         ELSE operator_store(Strip(parts[1]), parts[2], st,
                             IF Contains(operator, ",") THEN RPartitionHead(operator, ",") ELSE "",
                             d + 1))
    ELSE IF operator \in TRACK_OPERATORS THEN
        (IF Len(parts) < 2 THEN PromptError("Track operator requires name|text format", st)
         ELSE operator_track(parts[2], Strip(parts[1]), st, d + 1))
    ELSE IF operator \in OPTIONAL_OPERATORS THEN
        (IF Len(parts) < 2 THEN PromptError("Optional operator requires key|default format", st)
         ELSE optional_operator(Strip(parts[1]), parts[2], st, d + 1))
    ELSE IF operator \in IGNORE_OPERATORS THEN operator_ignore(argument, st, d + 1)
    ELSE IF operator \in COMMENT_OPERATORS THEN Ok("", st)
    ELSE PromptError("Unknown operator", st)

\* history: the operator resolve_operator finds in a text ("" when the text
\* holds no ":") and the number of parts its argument splits into on "|"
Dispatched(st, operator, argument) ==
    [st EXCEPT !.dispatched = Append(@, <<operator, Len(Split(argument, "|"))>>)]

resolve_operator(text, st, d) ==
    IF ~Contains(text, ":") THEN
        (IF Contains(text, "|") THEN operator_one_of(text, Dispatched(st, "", text), d + 1)
         ELSE select_normal(Strip(text), Dispatched(st, "", text), d + 1))
    ELSE Dispatch(Partition(text, ":")[1], Partition(text, ":")[3],
                  Split(Partition(text, ":")[3], "|"),
                  Dispatched(st, Partition(text, ":")[1], Partition(text, ":")[3]), d)

(***************************************************************************)
(* Recursive resolver                                                      *)
(***************************************************************************)

\* a loop that substitutes every occurrence of the expression at once
ProcessLoopBulk(result, st, d) ==
    IF ~Contains(result, "{") THEN Ok(result, st)
    ELSE With(eat_next_bracets(result), LAMBDA inner_content :
         IF inner_content = "" THEN Ok(result, st)
         ELSE Then(process_prompt(inner_content, st, TRUE, d + 1), LAMBDA processed :
                   ProcessLoop(ReplaceAll(result, "{" \o inner_content \o "}", processed.out),
                               processed.st, d)))

\* the while loop of process_prompt on the working string
ProcessLoop(result, st, d) ==
    IF ~Contains(result, "{") THEN Ok(result, st)
    ELSE With(eat_next_bracets(result), LAMBDA inner_content :
         IF inner_content = "" THEN Ok(result, st)
         ELSE Then(process_prompt(inner_content, st, TRUE, d + 1), LAMBDA processed :
                   ProcessLoop(ReplaceFirst(result, "{" \o inner_content \o "}", processed.out),
                               processed.st, d)))

\* a resolver that leaves the brackets nested in a branching expression to
\* the loop of the enclosing string, which then meets those of the branch
\* returned only
ResolveNestedOutsideBranches(prompt, st, inside_bracets, d) ==
    IF inside_bracets /\ Contains(prompt, ":")
          /\ Partition(prompt, ":")[1] \in
                 EQUALITY_OPERATORS \cup QUANTITATIVE_OPERATORS \cup IN_OPERATOR \cup HAS_OPERATOR
    THEN Ok(prompt, st)
    ELSE ProcessLoop(prompt, st, d)

\* process_prompt enters its while loop whatever the content is: the nested
\* brackets of an expression are resolved before resolve_operator sees it
ResolveNested(prompt, st, inside_bracets, d) == ProcessLoop(prompt, st, d)

\* a resolver that evaluates comments like any other expression
process_prompt_comments_evaluated(prompt, st, inside_bracets, d) ==
    IF d > RecursionLimit THEN Raise("RecursionError", "maximum recursion depth exceeded", st)
    ELSE Then(ProcessLoop(prompt, st, d), LAMBDA result :
              IF inside_bracets
              THEN Then(resolve_operator(result.out, result.st, d + 1), LAMBDA r :
                        Ok(Strip(r.out), r.st))
              ELSE Ok(Strip(result.out), result.st))

process_prompt(prompt, st, inside_bracets, d) ==
    IF d > RecursionLimit THEN Raise("RecursionError", "maximum recursion depth exceeded", st)
    ELSE IF inside_bracets /\ (StartsWith(prompt, "comment:") \/ StartsWith(prompt, "//:"))
    THEN Ok("", st)
    ELSE Then(ResolveNested(prompt, st, inside_bracets, d), LAMBDA result :
              IF inside_bracets
              THEN Then(resolve_operator(result.out, result.st, d + 1), LAMBDA r :
                        Ok(Strip(r.out), r.st))
              ELSE Ok(Strip(result.out), result.st))

(***************************************************************************)
(* Postprocessing                                                          *)
(***************************************************************************)

\* the first position >= start whose character is in chars, 0 if none
FirstOf(s, chars, start) ==
    LET hits == {i \in start..Len(s) : CharAt(s, i) \in chars}
    IN  IF hits = {} THEN 0 ELSE CHOOSE i \in hits : \A j \in hits : i <= j

\* the length of the whitespace run starting at position i
WsRun(s, i) ==
    LET stops == {j \in i..Len(s) : CharAt(s, j) \notin Whitespace}
    IN  IF stops = {} THEN Len(s) - i + 1
        ELSE (CHOOSE j \in stops : \A k \in stops : j <= k) - i

\* re.sub(r'\s+', ' ', s)
RECURSIVE CollapseWhitespace(_)
CollapseWhitespace(s) ==
    LET i == FirstOf(s, Whitespace, 1)
    IN  IF i = 0 THEN s
        ELSE SubSeq(s, 1, i - 1) \o " " \o CollapseWhitespace(SubSeq(s, i + WsRun(s, i), Len(s)))

Punctuation == {".", "!", "?", ",", ";", ":"}

\* re.sub(r'\s+([.!?,;:])', r'\1', s)
RECURSIVE StripBeforePunctuation(_)
StripBeforePunctuation(s) ==
    LET i == FirstOf(s, Whitespace, 1)
        n == WsRun(s, i)
    IN  IF i = 0 THEN s
        ELSE IF i + n <= Len(s) /\ CharAt(s, i + n) \in Punctuation
        THEN SubSeq(s, 1, i - 1) \o StripBeforePunctuation(SubSeq(s, i + n, Len(s)))
        ELSE SubSeq(s, 1, i + n - 1) \o StripBeforePunctuation(SubSeq(s, i + n, Len(s)))

\* re.sub(r',\s*', ', ', s)
RECURSIVE SpaceAfterCommas(_)
SpaceAfterCommas(s) ==
    LET i == Find(s, ",", 1)
    IN  IF i = 0 THEN s
        ELSE SubSeq(s, 1, i - 1) \o ", "
                 \o SpaceAfterCommas(SubSeq(s, i + 1 + WsRun(s, i + 1), Len(s)))

\* postprocess_prompt for a template that declares no "postprocess" list
postprocess_prompt(prompt) ==
    LET p1 == Strip(CollapseWhitespace(prompt))
        p2 == ReplaceAll(ReplaceAll(p1, ". .", "."), ", ,", ",")
    IN  SpaceAfterCommas(StripBeforePunctuation(p2))

(***************************************************************************)
(* Entrypoint shapes.  An entrypoint is [str |-> s], [list |-> <<...>>]    *)
(* whose elements are entrypoints again, or [dict |-> <<...>>], the items  *)
(* [key |-> k, value |-> entrypoint] of a dict in insertion order.         *)
(***************************************************************************)
IsDict(v) == "dict" \in DOMAIN v

\* key in node, node[key]
HasKey(node, key) == \E i \in 1..Len(node.dict) : node.dict[i].key = key
Child(node, key) == node.dict[CHOOSE i \in 1..Len(node.dict) : node.dict[i].key = key].value

detect_entrypoint_type(entrypoint) ==
    IF IsStr(entrypoint) THEN "string"
    ELSE IF IsList(entrypoint) THEN "list"
    ELSE IF HasKey(entrypoint, "text")
            \/ \E i \in 1..Len(entrypoint.dict) : IsDict(entrypoint.dict[i].value)
    THEN "tree_of_tags"
    ELSE "dict"

\* " ".join(parts)
RECURSIVE JoinWith(_, _)
JoinWith(parts, sep) ==
    IF parts = <<>> THEN ""
    ELSE IF Len(parts) = 1 THEN parts[1]
    ELSE parts[1] \o sep \o JoinWith(Tail(parts), sep)

RECURSIVE process_entrypoint_list(_, _)
RECURSIVE EntrypointParts(_, _, _)

\* the loop "for element in ...: result_parts.append(process_entrypoint_list(element))"
EntrypointParts(elements, acc, st) ==
    IF elements = <<>> THEN Ok(acc, st)
    ELSE Then(process_entrypoint_list(Head(elements), st), LAMBDA r :
              EntrypointParts(Tail(elements), Append(acc, r.out), r.st))

process_entrypoint_list(value, st) ==
    IF IsStr(value) THEN Ok(value.str, st)
    ELSE IF value.list = <<>> THEN Ok("", st)
    ELSE LET v == value.list
             all_elements_are_strings == \A i \in 1..Len(v) : IsStr(v[i])
             all_elements_are_lists == \A i \in 1..Len(v) : IsList(v[i])
             first_element_is_string == IsStr(v[1])
             all_elements_after_first_are_lists == \A i \in 2..Len(v) : IsList(v[i])
         IN  IF all_elements_are_strings THEN
                 With(random_choice([i \in 1..Len(v) |-> v[i].str], st), LAMBDA c : Ok(c.val, c.st))
             ELSE IF all_elements_are_lists THEN
                 Then(EntrypointParts(v, <<>>, st), LAMBDA r : Ok(JoinWith(r.out, " "), r.st))
             ELSE IF first_element_is_string /\ all_elements_after_first_are_lists THEN
                 Then(EntrypointParts(Tail(v), <<v[1].str>>, st), LAMBDA r :
                      Ok(JoinWith(r.out, " "), r.st))
             ELSE PromptError("Invalid entrypoint list structure", st)

\* the walk of one path of tags from current_node (nodes are dicts or
\* strings): the text of the node reached, "missing" when a tag is not
\* found, or the exception of indexing a string or a node without "text"
RECURSIVE WalkTags(_, _)
WalkTags(current_node, tags) ==
    IF tags = <<>> THEN
        (IF ~IsDict(current_node) THEN [kind |-> "TypeError", text |-> ""]
         ELSE IF ~HasKey(current_node, "text") \/ ~IsStr(Child(current_node, "text"))
         THEN [kind |-> "KeyError", text |-> ""]
         ELSE [kind |-> "found", text |-> Child(current_node, "text").str])
    ELSE IF IsDict(current_node) THEN
        (IF HasKey(current_node, Head(tags))
         THEN WalkTags(Child(current_node, Head(tags)), Tail(tags))
         ELSE [kind |-> "missing", text |-> ""])
    ELSE IF IsStr(current_node) /\ Contains(current_node.str, Head(tags))
    THEN [kind |-> "TypeError", text |-> ""]
    ELSE [kind |-> "missing", text |-> ""]

\* the loop "for tags in tags_paths" that fills text_list
RECURSIVE TreeTexts(_, _, _, _)
TreeTexts(entrypoint, tags_paths, text_list, st) ==
    IF tags_paths = <<>> THEN Ok(JoinWith(text_list, "\n"), st)
    ELSE With(WalkTags(entrypoint, Head(tags_paths)), LAMBDA w :
         IF w.kind \in {"TypeError", "KeyError"} THEN Raise(w.kind, "", st)
         ELSE TreeTexts(entrypoint, Tail(tags_paths),
                        IF w.kind = "found" THEN Append(text_list, w.text) ELSE text_list, st))

\* [path.strip().split("/") for path in value.split("\n") if path.strip()]
TagsPaths(value) ==
    [i \in 1..Len(NonBlank(Split(value, "\n"))) |->
        Split(Strip(NonBlank(Split(value, "\n"))[i]), "/")]

\* kwargs are the processed arguments of the pass
resolve_tree_of_tags(entrypoint, kwargs, st) ==
    IF ~HasKey(entrypoint, "text")
    THEN PromptError("Tree of tags entrypoint must contain a 'text' key.", st)
    ELSE IF DictGet(kwargs, "meta_tags_path", "") = ""
    THEN PromptError("No 'meta_tags_path' provided in kwargs for tree of tags entrypoint.", st)
    ELSE TreeTexts(entrypoint, TagsPaths(kwargs["meta_tags_path"]), <<>>, st)

\* str.split(): the runs of non-whitespace characters
SplitWhitespace(s) ==
    IF Strip(s) = "" THEN <<>> ELSE Split(Strip(CollapseWhitespace(s)), " ")

\* the loop "for part in key_parts": every part is found at or after the end
\* of the part before it (current_index is 1-based here)
RECURSIVE KeyMatches(_, _, _)
KeyMatches(key_parts, entrypoint_selector, current_index) ==
    IF key_parts = <<>> THEN TRUE
    ELSE With(Find(entrypoint_selector, Head(key_parts), current_index), LAMBDA found_index :
              /\ found_index # 0
              /\ KeyMatches(Tail(key_parts), entrypoint_selector,
                            found_index + Len(Head(key_parts))))

\* the position of the first key of the dict that matches, 0 if none does
MatchedKey(entrypoint, entrypoint_selector) ==
    LET hits == {i \in 1..Len(entrypoint.dict) :
                    KeyMatches(SplitWhitespace(entrypoint.dict[i].key), entrypoint_selector, 1)}
    IN  IF hits = {} THEN 0 ELSE CHOOSE i \in hits : \A j \in hits : i <= j

\* the selection of the entrypoint of a flat dict by kwargs["entrypoint_selector"]
SelectByKey(entrypoint, kwargs, st) ==
    IF DictGet(kwargs, "entrypoint_selector", "") = ""
    THEN PromptError("No entrypoint_selector provided for dict entrypoint selection.", st)
    ELSE With(MatchedKey(entrypoint, kwargs["entrypoint_selector"]), LAMBDA i :
         IF i = 0 THEN PromptError("No matching entrypoint found for selector", st)
         ELSE IF entrypoint.dict[i].key = ""
         THEN PromptError("No matching entrypoint found for selector", st)
         ELSE IF IsList(entrypoint.dict[i].value)
         THEN process_entrypoint_list(entrypoint.dict[i].value, st)
         ELSE Ok(entrypoint.dict[i].value.str, st))

\* the entrypoint text of the pass, by the type of the entrypoint
SelectEntrypoint(entrypoint, kwargs, st) ==
    IF detect_entrypoint_type(entrypoint) = "list" THEN process_entrypoint_list(entrypoint, st)
    ELSE IF detect_entrypoint_type(entrypoint) = "tree_of_tags"
    THEN resolve_tree_of_tags(entrypoint, kwargs, st)
    ELSE IF detect_entrypoint_type(entrypoint) = "dict" THEN SelectByKey(entrypoint, kwargs, st)
    ELSE Ok(entrypoint.str, st)

(***************************************************************************)
(* One generation pass                                                     *)
(***************************************************************************)

\* the strings of the data map: str values and the items of list values
DataStrings(data) ==
    UNION {IF IsStr(data[k]) THEN {data[k].str}
           ELSE {data[k].list[i] : i \in 1..Len(data[k].list)} : k \in DOMAIN data}

\* the files on disk: what json.load returns for each path that can be opened
Files ==
    ("/d/a.json" :> [includes |-> <<"/d|b.json">>, data |-> [ka |-> [list |-> <<"a">>]]])
    @@ ("/d/b.json" :> [includes |-> <<"/d|a.json">>, data |-> [kb |-> [list |-> <<"b">>]]])
    @@ ("/d/e.json" :> [includes |-> <<"/d|f.json">>, data |-> [ke |-> [list |-> <<"e">>]]])
    @@ ("/d/f.json" :> [data |-> [kf |-> [list |-> <<"f">>]]])
    @@ ("/d/g.json" :> [includes |-> <<"/d|a.json">>])

\* the file paths one entry of "includes" names: "dir|file|file", or a single
\* path, of which the code keeps the directory and, as file name, the base
\* name of that directory (paths are absolute and normalised here)
IncludeFilePaths(include_path) ==
    IF Contains(include_path, "|")
    THEN [i \in 1..(Len(Split(include_path, "|")) - 1) |->
             Split(include_path, "|")[1] \o "/" \o Split(include_path, "|")[i + 1]]
    ELSE <<RPartitionHead(include_path, "/") \o "/"
             \o Split(RPartitionHead(include_path, "/"), "/")[Len(Split(RPartitionHead(include_path, "/"), "/"))]>>

\* the file paths of a whole include list, in the order of the two loops
RECURSIVE IncludeListPaths(_)
IncludeListPaths(include_list) ==
    IF include_list = <<>> THEN <<>>
    ELSE IncludeFilePaths(Head(include_list)) \o IncludeListPaths(Tail(include_list))

\* the checks of initialize_template on the keys: "" or the message raised
ReservedKeyError(data, kwargs) ==
    IF \E key \in DOMAIN data : StartsWith(key, "meta_") \/ StartsWith(key, "track_")
    THEN "Template data key cannot start with 'meta_' or 'track_'"
    ELSE IF \E key \in DOMAIN kwargs : StartsWith(key, "regex_")
    THEN "Argument key cannot start with 'regex_'"
    ELSE ""

\* the bracket validation of every data string: "" or the message raised
DataBracketError(data) ==
    LET bad == {x \in DataStrings(data) : validate_bracets(x) # ""}
    IN  IF bad = {} THEN "" ELSE validate_bracets(CHOOSE x \in bad : TRUE)

RECURSIVE IncludeFiles(_, _, _, _, _)
RECURSIVE include_templates(_, _, _, _)
RECURSIVE initialize_template(_, _, _)

\* the loops of include_templates over the file paths left.  data is
\* template["templates"]["data"] so far; a result carries it as out, and the
\* set included_files as st.  d is the depth of the Python call stack: when
\* it is exhausted the interpreter's RecursionError surfaces inside the try
\* block around open/json.load, whose "except Exception" re-raises it as the
\* PromptError of a failed load.
IncludeFiles(paths, data, kwargs, included_files, d) ==
    IF paths = <<>> THEN Ok(data, included_files)
    ELSE IF Head(paths) \in included_files
    THEN PromptError("Circular reference detected when including '" \o Head(paths) \o "'.",
                     included_files)
    ELSE IF Head(paths) \notin DOMAIN Files \/ d >= RecursionLimit
    THEN PromptError("Failed to load included template file '" \o Head(paths) \o "'",
                     included_files \cup {Head(paths)})
    ELSE IF "data" \notin DOMAIN Files[Head(paths)]
    THEN IncludeFiles(Tail(paths), data, kwargs, included_files \cup {Head(paths)}, d)
    ELSE Then(initialize_template(Files[Head(paths)], kwargs, d + 1), LAMBDA i :
         Then(include_templates([Files[Head(paths)] EXCEPT !.data = i.out], kwargs,
                                included_files \cup {Head(paths)}, d + 1), LAMBDA r :
              IncludeFiles(Tail(paths), data @@ r.out, kwargs, r.st, d)))

\* include_templates(template, kwargs, included_files)
include_templates(template, kwargs, included_files, d) ==
    IF "includes" \notin DOMAIN template THEN Ok(template.data, included_files)
    ELSE IncludeFiles(IncludeListPaths(template.includes), template.data, kwargs,
                      included_files, d)

\* initialize_template for a template without preprocess and regex keys: the
\* data map after the includes (as out), or the PromptError raised.  Its call
\* of include_templates passes no included_files, so that call starts from an
\* empty set.
initialize_template(template, kwargs, d) ==
    IF ReservedKeyError(template.data, kwargs) # ""
    THEN PromptError(ReservedKeyError(template.data, kwargs), {})
    ELSE Then(include_templates(template, kwargs, {}, d + 1), LAMBDA r :
              IF DataBracketError(r.out) # "" THEN PromptError(DataBracketError(r.out), r.st)
              ELSE r)

\* the loop that builds kwargs_processed: the meta_ prefix is dropped and the
\* values are escaped; keys of later insertion (the meta_last_ ones) win
ProcessKwargs(kwargs) ==
    LET Target(key) == IF StartsWith(key, "meta_") THEN SubSeq(key, 6, Len(key)) ELSE key
        targets == {Target(key) : key \in DOMAIN kwargs}
        Source(t) == IF ("meta_" \o t) \in DOMAIN kwargs THEN "meta_" \o t ELSE t
    IN  [t \in targets |-> escape_special_characters(kwargs[Source(t)])]

\* data_field[f"meta_{key}"] = value for every processed argument
BindArguments(data, kwargs) ==
    [k \in DOMAIN data \cup {"meta_" \o key : key \in DOMAIN kwargs} |->
        IF StartsWith(k, "meta_") /\ SubSeq(k, 6, Len(k)) \in DOMAIN kwargs
        THEN [str |-> kwargs[SubSeq(k, 6, Len(k))]]
        ELSE data[k]]

\* state["data"], state["static"] and state["usage"] as a pass leaves them
Registers(st) ==
    [data |-> st.data, static |-> st.static, usage |-> st.usage, dispatched |-> st.dispatched]

\* the result of a pass that raised
PassRaise(kind, msg, seed, st) ==
    [kind |-> kind, msg |-> msg, output |-> "", seed |-> seed, statics |-> EmptyDict,
     rng |-> st.rng, draws |-> st.draws, starved |-> st.starved, data |-> EmptyDict,
     final |-> Registers(st)]

\* "if seed is None or seed < 1: seed = <clock>": the seed the pass runs under
EffectiveSeed(seed, clock) == IF seed < 1 THEN clock ELSE seed

\* a pass that leaves the generator as it finds it
SeedPassUnseeded(st, seed) == st

\* random.seed(seed) at the start of the pass
SeedPass(st, seed) == [st EXCEPT !.rng = random_seed(seed)]

\* the result of a pass that returned
PassOk(output, seed, st, data) ==
    [kind |-> "ok", msg |-> "", output |-> output, seed |-> seed, statics |-> st.static,
     rng |-> st.rng, draws |-> st.draws, starved |-> st.starved, data |-> data,
     final |-> Registers(st)]

\* the pass from the resolution of the entrypoint text on: validation, the
\* arguments bound as meta_ keys, resolution, postprocessing, unescaping
ResolveEntrypoint(entrypoint, data, seed, st) ==
    IF entrypoint = ""
    THEN PassRaise("PromptError", "Entrypoint is empty after processing", seed, st)
    ELSE IF validate_bracets(entrypoint) # ""
    THEN PassRaise("PromptError", validate_bracets(entrypoint), seed, st)
    ELSE With(process_prompt(entrypoint, [st EXCEPT !.data = data], FALSE, 1), LAMBDA r :
              IF r.kind # "ok" THEN PassRaise(r.kind, r.msg, seed, r.st)
              ELSE PassOk(unescape_special_characters(postprocess_prompt(r.out)), seed, r.st, data))

\* the pass once the generator is seeded
SeededPass(template, seed, kwargs0, st1) ==
    IF \E key \in DOMAIN kwargs0 : Contains(key, "regex_")
    THEN PassRaise("PromptError", "Argument key cannot contain 'regex_'", seed, st1)
    ELSE With(ProcessKwargs(kwargs0), LAMBDA kwargs :
         With(initialize_template(template, kwargs, 1), LAMBDA init :
         IF init.kind # "ok" THEN PassRaise(init.kind, init.msg, seed, st1)
         ELSE With(SelectEntrypoint(template.entrypoint, kwargs, st1), LAMBDA e :
                   IF e.kind # "ok" THEN PassRaise(e.kind, e.msg, seed, e.st)
                   ELSE ResolveEntrypoint(Strip(e.out), BindArguments(init.out, kwargs),
                                          seed, e.st))))

\* _generate_prompt_implementation(template, seed, kwargs).  clock is the value
\* of int(time.time() * 1000) + random.randint(0, 1 << 30) at the call; st0
\* carries the random module as the pass finds it.  The result holds the
\* returned output, seed and statics, the exception kind if one was raised,
\* the random module as the pass leaves it, and (as history) the number of
\* selection draws and the data map the resolution started from.
_generate_prompt_implementation(template, seed, kwargs, clock, st0) ==
    SeededPass(template, EffectiveSeed(seed, clock), kwargs,
               SeedPass([st0 EXCEPT !.draws = 0, !.data = template.data],
                        EffectiveSeed(seed, clock)))


(***************************************************************************)
(* Template forms.  A structured template is                               *)
(* [form |-> "dict", entrypoint |-> ..., data |-> ...]; a hybrid text      *)
(* template is [form |-> "text", text |-> s].                              *)
(***************************************************************************)

\* the JSON documents the text templates embed, with the value json.loads
\* returns for each; json.loads fails on any other text
JsonDocs ==
    ("{\"templates\": {\"data\": {\"k\": [\"a\", \"b\"]}}}" :>
        [data |-> [k |-> [list |-> <<"a", "b">>]]])
    @@ ("{\"entrypoint\": \"{k}\", \"templates\": {\"data\": {\"k\": \"v\"}}}" :>
        [entrypoint |-> [str |-> "{k}"], data |-> [k |-> [str |-> "v"]]])

\* json.loads(text)
JsonLoads(text) ==
    IF text \in DOMAIN JsonDocs THEN [ok |-> TRUE, value |-> JsonDocs[text]]
    ELSE [ok |-> FALSE, value |-> [data |-> EmptyDict]]

\* template_dict.get("entrypoint", ""), with the "templates"/"data" defaults
AsTemplate(value) ==
    [entrypoint |-> IF "entrypoint" \in DOMAIN value THEN value.entrypoint ELSE [str |-> ""],
     data |-> value.data]

ScanStart ==
    [inside_json_block |-> FALSE, inside_template_block |-> FALSE,
     current_template_key |-> "", json_lines |-> <<>>, template_lines |-> <<>>,
     entrypoint_lines |-> <<>>, templates_to_set |-> EmptyDict,
     code_block_found |-> FALSE, error |-> ""]

\* the code fence: three backquotes in the source, written with tildes here, a
\* backquote not being a character of a TLA+ string
Fence == "~~~"

\* one iteration of the loop over the lines of a text template
ScanLine(a, line) ==
    LET stripped_line == Strip(line)
        content == Strip(JoinWith(a.template_lines, "\n"))
    IN  IF StartsWith(stripped_line, Fence \o "json") THEN
            (IF a.code_block_found
             THEN [a EXCEPT !.error = "Multiple JSON code blocks found in template string"]
             ELSE [a EXCEPT !.inside_json_block = TRUE, !.code_block_found = TRUE,
                            !.inside_template_block = FALSE, !.json_lines = <<>>])
        ELSE IF StartsWith(stripped_line, Fence \o "template.") THEN
            (IF a.inside_json_block
             THEN [a EXCEPT !.error = "Template blocks must be before JSON block"]
             ELSE [a EXCEPT !.templates_to_set =
                                IF a.inside_template_block
                                THEN DictSet(@, a.current_template_key, content) ELSE @,
                            !.current_template_key =
                                Strip(SubSeq(stripped_line, 13, Len(stripped_line))),
                            !.inside_template_block = TRUE,
                            !.template_lines = <<>>])
        ELSE IF StartsWith(stripped_line, Fence)
                /\ (a.inside_json_block \/ a.inside_template_block) THEN
            (IF a.inside_template_block
             THEN [a EXCEPT !.templates_to_set = DictSet(@, a.current_template_key, content),
                            !.inside_template_block = FALSE,
                            !.current_template_key = "",
                            !.template_lines = <<>>]
             ELSE [a EXCEPT !.inside_json_block = FALSE])
        ELSE IF a.inside_json_block THEN [a EXCEPT !.json_lines = Append(@, line)]
        ELSE IF a.inside_template_block THEN [a EXCEPT !.template_lines = Append(@, line)]
        ELSE [a EXCEPT !.entrypoint_lines = Append(@, line)]

RECURSIVE ScanLines(_, _)
ScanLines(lines, a) ==
    IF lines = <<>> \/ a.error # "" THEN a
    ELSE ScanLines(Tail(lines), ScanLine(a, Head(lines)))

\* ensure_template_dict: kind "ok" with the template in out, or the plain
\* Exception it raises
\* ensure_template_dict on the scanned lines of a text template
Assemble(a, code_block_content, entrypoint_content) ==
    IF a.error # "" THEN Raise("Exception", a.error, EmptyDict)
    ELSE IF a.inside_json_block \/ a.inside_template_block
    THEN Raise("Exception", "Unclosed code block in template string", EmptyDict)
    ELSE IF code_block_content = ""
    THEN Raise("Exception", "No JSON code block found in template string", EmptyDict)
    ELSE IF ~JsonLoads(code_block_content).ok
    THEN Raise("Exception", "Failed to parse JSON code block in template string", EmptyDict)
    ELSE IF entrypoint_content = ""
    THEN Raise("Exception", "No entrypoint content found outside JSON code block", EmptyDict)
    ELSE With(JsonLoads(code_block_content).value.data, LAMBDA data :
              Ok([entrypoint |-> [str |-> entrypoint_content],
                  data |-> [k \in DOMAIN data \cup DOMAIN a.templates_to_set |->
                               IF k \in DOMAIN a.templates_to_set
                               THEN [str |-> a.templates_to_set[k]]
                               ELSE data[k]]],
                 EmptyDict))

ensure_template_dict(template) ==
    IF template.form = "dict"
    THEN Ok([f \in DOMAIN template \ {"form"} |-> template[f]], EmptyDict)
    ELSE IF StartsWith(Strip(template.text), "{") /\ JsonLoads(Strip(template.text)).ok
    THEN Ok(AsTemplate(JsonLoads(Strip(template.text)).value), EmptyDict)
    ELSE With(ScanLines(Split(Strip(template.text), "\n"), ScanStart), LAMBDA a :
              Assemble(a, Strip(JoinWith(a.json_lines, "\n")),
                       Strip(JoinWith(a.entrypoint_lines, "\n"))))

(***************************************************************************)
(* The templates, argument maps and calls of the model                     *)
(***************************************************************************)
Str(x) == [str |-> x]
Lst(x) == [list |-> x]
Map(items) == [dict |-> items]
Item(key, value) == [key |-> key, value |-> value]
Dict(entrypoint, data) == [form |-> "dict", entrypoint |-> entrypoint, data |-> data]
Including(includes, template) == [includes |-> includes] @@ template

Templates ==
    << \* 1: no bracket expression
       Dict(Str("hello"), EmptyDict),
       \* 2: one normal pick
       Dict(Str("{k}"), [k |-> Lst(<<"a", "b", "c">>)]),
       \* 3: three scoped-exclusive draws of a two-option key under one prefix
       Dict(Str("{p@:k}/{p@:k}/{p@:k}"), [k |-> Lst(<<"a", "b">>)]),
       \* 4: two prefix/key pairs with the same concatenation
       Dict(Str("{ab@:c}/{a@:bc}/{a@:bc}"), [c |-> Lst(<<"x">>), bc |-> Lst(<<"x", "y">>)]),
       \* 5: one global-exclusive draw
       Dict(Str("{@@:k}"), [k |-> Lst(<<"a", "b">>)]),
       \* 6: a memoized reference, other operators, the same reference again
       Dict(Str("{$:k}/{@:k}{x$:k}{set:j|{k}}{tk:t|{k}}/{$:k}"), [k |-> Lst(<<"a", "b", "c">>)]),
       \* 7: a memoized reference, a store to the same key, the same reference again
       Dict(Str("{$:k}/{set:k|z}/{$:k}"), [k |-> Lst(<<"a", "b", "c">>)]),
       \* 8: an unbalanced string in the data map
       Dict(Str("{k}"), [k |-> Lst(<<"a", "{b">>)]),
       \* 9: an unbalanced string entrypoint
       Dict(Str("{k} }"), [k |-> Lst(<<"a", "b">>)]),
       \* 10: a list entrypoint with an unbalanced option
       Dict(Lst(<<Str("{k"), Str("{k}")>>), [k |-> Lst(<<"a", "b">>)]),
       \* 11: a nested-list entrypoint with an unbalanced option
       Dict(Lst(<<Lst(<<Str("x"), Str("y{")>>), Lst(<<Str("{k}")>>)>>), [k |-> Lst(<<"a", "b">>)]),
       \* 12: a data key that expands to itself
       Dict(Str("{a}"), [a |-> Str("{a}")]),
       \* 13: a static with a comma, read back by the next pass of a chain
       Dict(Str("{set:s|a,b}{set:t|c}{opt:meta_last_s|-}/{opt:meta_last_t|-}/{opt:meta_last_output|-}"),
            EmptyDict),
       \* 14: a missing key
       Dict(Str("{zz}"), EmptyDict),
       \* 15: a text template without a JSON block
       [form |-> "text", text |-> "hello {k}"],
       \* 16: a text template with a JSON block
       [form |-> "text",
        text |-> "pick {k}\n" \o Fence \o "json\n{\"templates\": {\"data\": {\"k\": [\"a\", \"b\"]}}}\n" \o Fence],
       \* 17: a text template that is one JSON document
       [form |-> "text", text |-> "{\"entrypoint\": \"{k}\", \"templates\": {\"data\": {\"k\": \"v\"}}}"],
       \* 18: the error operator fires in the pass numbered 1 of a chain
       Dict(Str("{k}{error:meta_pass_number|1}"), [k |-> Lst(<<"a", "b">>)]),
       \* 19: the eight numeric comparisons of the argument v with 10
       Dict(Str("{>:meta_v|10|T|F}/{gt:meta_v|10|T|F}/{<:meta_v|10|T|F}/{lt:meta_v|10|T|F}/"
                \o "{>=:meta_v|10|T|F}/{gte:meta_v|10|T|F}/{<=:meta_v|10|T|F}/{lte:meta_v|10|T|F}"),
            EmptyDict),
       \* 20: a literal with a bracket expression in its argument
       Dict(Str("{#:a {k} b}"), [k |-> Lst(<<"x", "y">>)]),
       \* 21: a literal with an empty pair of brackets in its argument
       Dict(Str("{#:a {} b}"), [k |-> Lst(<<"x", "y">>)]),
       \* 22: comments around expressions that select, store, track and raise
       Dict(Str("{@:k}{comment:{zz}{@:k}{set:s|1}{tk:t|{k}}{error:k|a}}{//:{k}{@:k}}{@:k}"
                \o "/{opt:track_t|-}/{k}"),
            [k |-> Lst(<<"a", "b">>)]),
       \* 23: template 22 without its comments
       Dict(Str("{@:k}{@:k}/{opt:track_t|-}/{k}"), [k |-> Lst(<<"a", "b">>)]),
       \* 24: a repeat of a text with a pick inside
       Dict(Str("{x:3|{k}/}"), [k |-> Lst(<<"a", "b", "c">>)]),
       \* 25: the argument v echoed unchanged
       Dict(Str("{meta_v}"), EmptyDict),
       \* 26: a tree of tags
       Dict(Map(<<Item("text", Str("root")),
                  Item("outdoor", Map(<<Item("text", Str("out {k}")),
                                        Item("cat", Map(<<Item("text", Str("cat"))>>))>>))>>),
            [k |-> Str("v")]),
       \* 27: a flat dict entrypoint selected by entrypoint_selector
       Dict(Map(<<Item("red, blue", Str("K1")), Item("goo morn", Str("K2")),
                  Item("morn goo", Str("K3")), Item("pipe", Str("K4")),
                  Item("good", Str("K5")), Item("ana na", Str("K6"))>>),
            EmptyDict),
       \* 28: three increments of one counter
       Dict(Str("{inc:c} {inc:c} {inc:c}"), EmptyDict),
       \* 29: a decrement
       Dict(Str("{dec:c}"), EmptyDict),
       \* 30: a sum and a difference of integer literals
       Dict(Str("{+:2|3}/{-:10|4}"), EmptyDict),
       \* 31: a sum and a difference of resolved data keys
       Dict(Str("{+:{a}|{b}}/{-:{a}|{b}}"), [a |-> Str("10"), b |-> Str("4")]),
       \* 32: the content of /d/a.json, which includes b.json, which includes a.json
       Including(<<"/d|b.json">>, Dict(Str("{ka}{kb}"), [ka |-> Lst(<<"a">>)])),
       \* 33: a chain of includes without a cycle
       Including(<<"/d|e.json">>, Dict(Str("{ke}{kf}"), EmptyDict)),
       \* 34: one file named twice in an include list
       Including(<<"/d|f.json|f.json">>, Dict(Str("{kf}"), EmptyDict)),
       \* 35: an included file without data, and a single path without "|"
       Including(<<"/d|g.json", "/d/f.json">>, Dict(Str("x"), EmptyDict)),
       \* 36: the line of a followed list
       Dict(Str("{meta_current_x}"), EmptyDict),
       \* 37: two prefix/key pairs with the same concatenation and disjoint options
       Dict(Str("{ab@:c}/{a@:bc}"), [c |-> Lst(<<"x">>), bc |-> Lst(<<"y", "z">>)]),
       \* 38: a static, a tracked value and an exclusive draw in every pass, the
       \* static and the tracked value named after the pass number
       Dict(Str("{set:s{meta_pass_number}|v}{tk:t{meta_pass_number}|w}{p@:k}"),
            [k |-> Lst(<<"a", "b">>)]),
       \* 39: an empty bracket pair before a pick
       Dict(Str("a{}b{k}"), [k |-> Lst(<<"x">>)]),
       \* 40: two identical exclusive draws, a store nested in a store of the same
       \* key, and two stores of one key side by side
       Dict(Str("{p@:k}/{p@:k}/{set:s|a{set:s|b}}{set:t|1}{set:t|2}"), [k |-> Lst(<<"x", "y">>)]),
       \* 41: a comparison of the argument v with 10 whose two branches each
       \* memoize, draw exclusively and track
       Dict(Str("{==:meta_v|10|T{$:k}{p@:k}{tk:t|w}|F{x$:k}{q@:k}{tk:u|w}}"),
            [k |-> Lst(<<"a", "b">>)]),
       \* 42: an anonymous one-of list whose first item is the argument v
       Dict(Str("{{meta_v}|T}"), EmptyDict),
       \* 43: a comparison with a data value that holds a "|"
       Dict(Str("{==:k|{d}|T|F}"), [k |-> Str("x"), d |-> Str("x|T")]),
       \* 44: a comparison with a data value picked from a list
       Dict(Str("{==:k|{e}|T|F}"), [k |-> Str("x"), e |-> Lst(<<"x", "y z">>)])
    >>

\* the argument maps (kwargs) the calls pass
Kwargs ==
    << EmptyDict,
       [my_key |-> "a,b"],
       [meta_x |-> "v"],
       [v |-> "9"],
       [v |-> "10"],
       [v |-> "11"],
       [v |-> "a|b"],
       [v |-> "{a}"],
       [v |-> "a,b"],
       [v |-> "a&b"],
       [tags_path |-> "outdoor/cat\noutdoor\n\n"],
       [entrypoint_selector |-> "good morning"],
       [entrypoint_selector |-> "morning good"],
       [entrypoint_selector |-> "xyz"],
       [entrypoint_selector |-> "red, blue"],
       [entrypoint_selector |-> "a | b"],
       [entrypoint_selector |-> "bana"],
       [entrypoint_selector |-> "banana"],
       \* 19: a list to follow, of two non-blank lines
       ("follow-list-of-x" :> "a, b\n\n  c \n"),
       \* 20: a value that reads as an operator
       [v |-> "#:x"] >>

\* the upper clamps of generate_prompt
MaxPromptCount == 1000
MaxContinueCount == 10

\* bounds of the model: seeds passed, clock values, prompt and continuation
\* counts passed (beside the two that exceed the clamps), calls per behaviour
MaxSeed == 4
MaxClock == 2
MaxN == 2
MaxC == 1
MaxCalls == 2
MaxEntropy == 1

Seeds == 0..MaxSeed
ClockSeeds == 1..MaxClock

\* the templates called with several prompts and continuations
ChainTemplates == {2, 7, 13, 14, 18}

\* the templates about single operators, resolved under SpecOperators
OperatorTemplates == 19..Len(Templates)

CallInputs ==
    [t : (1..Len(Templates)) \ OperatorTemplates, seed : Seeds, kw : {1}, n : {1}, c : {0}]
    \cup [t : {2}, seed : Seeds, kw : 1..3, n : {1}, c : {0}]
    \cup [t : ChainTemplates, seed : Seeds, kw : {1}, n : 0..MaxN, c : (0 - 1)..MaxC]
    \cup [t : {1}, seed : {1}, kw : {1}, n : {MaxPromptCount + 1}, c : {0}]
    \cup [t : {1}, seed : {1}, kw : {1}, n : {1}, c : {MaxContinueCount + 1}]

(***************************************************************************)
(* generate_prompt and generate_prompt_no_except as a state machine        *)
(***************************************************************************)
VARIABLES
    rng,         \* the process-wide generator of the random module
    pc,          \* "idle": no call runs; "loop": in the pass loop; "done": loop over
    call,        \* the arguments of the running (or last) call
    loc,         \* the locals of generate_prompt
    kwargs,      \* its working copy of the argument map
    meta_lasts,  \* its meta_lasts dict
    result,      \* its result list
    ret,         \* what the last call returned or raised
    prev,        \* history: the arguments and outcome of the call before
    pass_info,   \* history: the last pass (data map it resolved against, draws)
    ncalls,      \* history: the number of calls made
    th,          \* the passes that run as threads of the process (SpecThreads)
    scan         \* the loop of validate_bracets over one string (SpecBrackets)

vars == <<rng, pc, call, loc, kwargs, meta_lasts, result, ret, prev, pass_info, ncalls, th,
          scan>>

\* the variables of a call of generate_prompt
call_vars == <<pc, call, loc, kwargs, meta_lasts, result, ret, prev, pass_info, ncalls>>

Threads == {1, 2}
NoThread == [pc |-> "new", t |-> 0, seed |-> 0, tape |-> <<>>, kind |-> "none", output |-> ""]

NoCall == [t |-> 0, seed |-> 0, kw |-> 0, n |-> 0, c |-> 0, wrapped |-> FALSE]
NoRet == [kind |-> "none", value |-> <<>>, exc |-> "", msg |-> ""]
NoLoc == [template |-> [entrypoint |-> Str(""), data |-> EmptyDict], seed |-> 0,
          num_prompts |-> 0, num_continues |-> 0, include_lists |-> EmptyDict,
          p_number |-> 0, pass_number |-> 0, current_prompt |-> 0]
NoPass == [data |-> EmptyDict, draws |-> 0, kind |-> "none", msg |-> "",
           final |-> [data |-> EmptyDict, static |-> EmptyDict, usage |-> EmptyDict,
                      dispatched |-> <<>>]]
NoScan == [prompt |-> "", idx |-> 0, stack |-> <<>>, raised |-> "none"]

InitProcess ==
    /\ rng \in 0..MaxEntropy
    /\ pc = "idle"
    /\ call = NoCall
    /\ loc = NoLoc
    /\ kwargs = EmptyDict
    /\ meta_lasts = EmptyDict
    /\ result = <<>>
    /\ ret = NoRet
    /\ prev = [call |-> NoCall, ret |-> NoRet]
    /\ pass_info = NoPass
    /\ ncalls = 0
    /\ th = [i \in Threads |-> NoThread]

Init == InitProcess /\ scan = NoScan

\* the clamps of num_prompts and num_continues
ClampPrompts(n) == IF n < 1 THEN 1 ELSE IF n > MaxPromptCount THEN MaxPromptCount ELSE n

\* a continuation count kept above 0 only
ClampContinuesBelow(c) == IF c < 0 THEN 0 ELSE c

ClampContinues(c) == IF c < 0 THEN 0 ELSE IF c > MaxContinueCount THEN MaxContinueCount ELSE c

\* the non-blank stripped lines of a follow-list-of- value
FollowValues(value) == NonBlank(StripAll(Split(value, "\n")))

\* include_lists: name -> values, for the follow-list-of- keys with a value
IncludeLists(kw) ==
    LET keys == {k \in DOMAIN kw : StartsWith(k, "follow-list-of-") /\ FollowValues(kw[k]) # <<>>}
    IN  [name \in {SubSeq(k, 16, Len(k)) : k \in keys} |-> FollowValues(kw["follow-list-of-" \o name])]

\* kwargs after "del kwargs[key]" of the follow-list-of- keys
WithoutFollowLists(kw) ==
    [k \in {x \in DOMAIN kw : ~StartsWith(x, "follow-list-of-")} |-> kw[k]]

\* a failing call that hands over the records appended so far
RaisedWithPartial(exc, msg, wrapped) ==
    IF wrapped /\ exc = "PromptError"
    THEN [kind |-> "error_record", value |-> result, exc |-> "", msg |-> msg]
    ELSE [kind |-> "raise", value |-> result, exc |-> exc, msg |-> msg]

\* what a call that raised hands to its caller: the wrapper turns a
\* PromptError, and no other exception, into an error record
Raised(exc, msg, wrapped) ==
    IF wrapped /\ exc = "PromptError"
    THEN [kind |-> "error_record", value |-> <<>>, exc |-> "", msg |-> msg]
    ELSE [kind |-> "raise", value |-> <<>>, exc |-> exc, msg |-> msg]

\* the exception generate_prompt raises before its pass loop, if any
Prologue(tpl, kw, wrapped) ==
    IF tpl.kind # "ok" THEN Raised(tpl.kind, tpl.msg, wrapped)
    ELSE IF \E key \in DOMAIN kw : StartsWith(key, "meta_")
    THEN Raised("PromptError", "Argument key cannot start with 'meta_'", wrapped)
    ELSE NoRet

\* generate_prompt up to the pass loop
StartCall(in, wrapped) ==
    /\ pc = "idle"
    /\ ncalls < MaxCalls
    /\ ncalls > 0 => /\ in.t = call.t
                     /\ in.kw = call.kw
                     /\ in.n = call.n
                     /\ in.c = call.c
                     /\ wrapped = call.wrapped
    /\ ncalls' = ncalls + 1
    /\ prev' = [call |-> call, ret |-> ret]
    /\ call' = [t |-> in.t, seed |-> in.seed, kw |-> in.kw, n |-> in.n, c |-> in.c,
                wrapped |-> wrapped]
    /\ result' = <<>>
    /\ meta_lasts' = EmptyDict
    /\ pass_info' = NoPass
    /\ UNCHANGED <<rng, th, scan>>
    /\ \E tpl \in {ensure_template_dict(Templates[in.t])} :
       \E failure \in {Prologue(tpl, Kwargs[in.kw], wrapped)} :
          IF failure.kind # "none"
          THEN /\ ret' = failure
               /\ pc' = "idle"
               /\ loc' = NoLoc
               /\ kwargs' = EmptyDict
          ELSE /\ ret' = NoRet
               /\ pc' = "loop"
               /\ kwargs' = WithoutFollowLists(Kwargs[in.kw])
               /\ loc' = [template |-> tpl.out, seed |-> in.seed,
                          num_prompts |-> ClampPrompts(in.n),
                          num_continues |-> ClampContinues(in.c),
                          include_lists |-> IncludeLists(Kwargs[in.kw]),
                          p_number |-> 0, pass_number |-> 0, current_prompt |-> 0]

Call == \E in \in CallInputs : StartCall(in, FALSE)

CallNoExcept == \E in \in CallInputs : StartCall(in, TRUE)

\* kwargs as the pass receives it: the follow-list line of the slot, the pass
\* number and the meta_last_ keys
PassKwargs ==
    LET current == [k \in {"current_" \o name : name \in DOMAIN loc.include_lists} |->
                       LET values == loc.include_lists[SubSeq(k, 9, Len(k))]
                       IN  values[(loc.p_number % Len(values)) + 1]]
    IN  meta_lasts @@ ("pass_number" :> NatStr(loc.pass_number)) @@ current @@ kwargs

\* kwargs_copy: the meta_last_ keys removed, the current_ prefix dropped
GenerationInfo(kw) ==
    LET kept == {k \in DOMAIN kw : ~StartsWith(k, "meta_last_")}
        Name(k) == IF StartsWith(k, "current_") THEN SubSeq(k, 9, Len(k)) ELSE k
        Source(n) == IF ("current_" \o n) \in kept THEN "current_" \o n ELSE n
    IN  [n \in {Name(k) : k \in kept} |-> kw[Source(n)]]

\* meta_lasts after a pass of a call with continuations
NextMetaLasts(ml, generated) ==
    LET exported == {k \in DOMAIN generated.statics : ~StartsWith(k, "meta_last_")}
    IN  ("meta_last_output" :> generated.output)
        @@ [k \in {"meta_last_" \o key : key \in exported} |->
               generated.statics[SubSeq(k, 11, Len(k))]]
        @@ ml

\* one state object that every pass of the process works on
PassStateShared(r) ==
    [data |-> pass_info.final.data, static |-> pass_info.final.static,
     usage |-> pass_info.final.usage, rng |-> r, draws |-> 0,
     live |-> TRUE, tape |-> <<>>, starved |-> FALSE, dispatched |-> <<>>]

\* the state the random module and the registers are in when a pass begins:
\* the pass works on copy.deepcopy(template), whose "templates" dict holds
\* neither "static" nor "usage"
PassState(r) ==
    [data |-> EmptyDict, static |-> EmptyDict, usage |-> EmptyDict, rng |-> r, draws |-> 0,
     live |-> TRUE, tape |-> <<>>, starved |-> FALSE, dispatched |-> <<>>]

\* the response record of a pass; generation_info is kwargs_copy, its string
\* keys under "kwargs" beside the two integer keys the loop adds
Response(generated, kw) ==
    [output |-> generated.output, seed |-> generated.seed, statics |-> generated.statics,
     generation_info |-> [kwargs |-> GenerationInfo(kw),
                          gen_pass_number |-> loc.pass_number,
                          gen_prompt_number |-> loc.p_number]]

\* one iteration of the pass loop of generate_prompt
Pass ==
    /\ pc = "loop"
    /\ \E clock \in ClockSeeds :
       \E kw \in {PassKwargs} :
       \E generated \in {_generate_prompt_implementation(
                             loc.template, loc.seed + loc.current_prompt, kw, clock, PassState(rng))} :
            /\ rng' = generated.rng
            /\ kwargs' = kw
            /\ pass_info' = [data |-> generated.data, draws |-> generated.draws,
                             kind |-> generated.kind, msg |-> generated.msg,
                             final |-> generated.final]
            /\ UNCHANGED <<call, prev, ncalls, th, scan>>
            /\ IF generated.kind # "ok"
               THEN /\ ret' = Raised(generated.kind, generated.msg, call.wrapped)
                    /\ pc' = "idle"
                    /\ UNCHANGED <<loc, meta_lasts, result>>
               ELSE /\ result' = Append(result, Response(generated, kw))
                    /\ meta_lasts' = IF loc.num_continues > 0
                                     THEN NextMetaLasts(meta_lasts, generated)
                                     ELSE meta_lasts
                    /\ loc' = [loc EXCEPT
                                  !.current_prompt = @ + 1,
                                  !.pass_number = IF @ = loc.num_continues THEN 0 ELSE @ + 1,
                                  !.p_number = IF loc.pass_number = loc.num_continues
                                               THEN @ + 1 ELSE @]
                    /\ pc' = IF loc.pass_number = loc.num_continues
                                /\ loc.p_number + 1 = loc.num_prompts
                             THEN "done" ELSE "loop"
                    /\ UNCHANGED ret

\* the end of generate_prompt: a single result is returned bare
Return ==
    /\ pc = "done"
    /\ pc' = "idle"
    /\ ret' = [kind |-> IF Len(result) = 1 THEN "record" ELSE "list",
               value |-> result, exc |-> "", msg |-> ""]
    /\ UNCHANGED <<rng, call, loc, kwargs, meta_lasts, result, prev, pass_info, ncalls, th, scan>>

Next == Call \/ CallNoExcept \/ Pass \/ Return

Spec == Init /\ [][Next]_vars

(***************************************************************************)
(* Single calls of generate_prompt on the templates about one operator     *)
(***************************************************************************)

\* the argument maps passed with each of those templates, and the calls
TemplateKwargs(t) ==
    IF t \in {19, 41} THEN 4..6
    ELSE IF t = 25 THEN 7..10
    ELSE IF t = 26 THEN {1, 11}
    ELSE IF t = 27 THEN {1} \cup 12..18
    ELSE IF t = 36 THEN {19}
    ELSE IF t = 42 THEN 7..10 \cup {20}
    ELSE {1}

\* the prompt and continuation counts passed with each of them
TemplatePrompts(t) == IF t = 36 THEN {3} ELSE IF t = 38 THEN {2} ELSE {1}

TemplateContinues(t) == IF t \in {36, 38} THEN {0, 1} ELSE {0}

OperatorInputs ==
    UNION {[t : {t}, seed : 1..MaxSeed, kw : TemplateKwargs(t), n : TemplatePrompts(t),
            c : TemplateContinues(t)] : t \in OperatorTemplates}

CallOperator == \E in \in OperatorInputs : StartCall(in, FALSE)

NextOperators == CallOperator \/ Pass \/ Return

SpecOperators == Init /\ [][NextOperators]_vars

(***************************************************************************)
(* Passes as threads of one process.  Each thread runs                     *)
(* _generate_prompt_implementation on its own template and seed; the       *)
(* random module is the one object of the process.  A step of a thread is  *)
(* one call into the random module (the interpreter runs each such call    *)
(* in one piece): random.seed, or one draw.  th[i].tape holds the numbers  *)
(* the thread has drawn; between draws the thread's work is a function of  *)
(* its template, its seed and those numbers.                               *)
(***************************************************************************)

\* the templates run as threads (none uses "@@") and their seeds
ThreadTemplates == {2, 3}
ThreadSeeds == 1..MaxSeed

\* the pass of thread i over the numbers it has drawn so far
ThreadRun(i) ==
    _generate_prompt_implementation(
        ensure_template_dict(Templates[th[i].t]).out, th[i].seed, EmptyDict, 1,
        [PassState(0) EXCEPT !.live = FALSE, !.tape = th[i].tape])

\* the same pass run alone in the process
RunAlone(t, seed) ==
    _generate_prompt_implementation(
        ensure_template_dict(Templates[t]).out, seed, EmptyDict, 1, PassState(0))

\* a thread is created for a template and a seed
ThreadStart ==
    \E i \in Threads, t \in ThreadTemplates, seed \in ThreadSeeds :
        /\ th[i].pc = "new"
        /\ th' = [th EXCEPT ![i] = [@ EXCEPT !.pc = "seed", !.t = t, !.seed = seed]]
        /\ UNCHANGED <<rng, call_vars, scan>>

\* random.seed(seed) at the start of the thread's pass
ThreadSeed ==
    \E i \in Threads :
        /\ th[i].pc = "seed"
        /\ rng' = random_seed(th[i].seed)
        /\ th' = [th EXCEPT ![i] = [@ EXCEPT !.pc = "run"]]
        /\ UNCHANGED <<call_vars, scan>>

\* the thread's next call of random.choice: one number off the generator
ThreadDraw ==
    \E i \in Threads :
        /\ th[i].pc = "run"
        /\ ThreadRun(i).starved
        /\ rng' = RngNext(rng)
        /\ th' = [th EXCEPT ![i] = [@ EXCEPT !.tape = Append(@, RngNext(rng))]]
        /\ UNCHANGED <<call_vars, scan>>

\* the thread's pass returns (or raises)
ThreadFinish ==
    \E i \in Threads :
        /\ th[i].pc = "run"
        /\ \E r \in {ThreadRun(i)} :
              /\ ~r.starved
              /\ th' = [th EXCEPT ![i] = [@ EXCEPT !.pc = "done", !.kind = r.kind,
                                                   !.output = r.output]]
        /\ UNCHANGED <<rng, call_vars, scan>>

NextThreads == ThreadStart \/ ThreadSeed \/ ThreadDraw \/ ThreadFinish

SpecThreads == Init /\ [][NextThreads]_vars

(***************************************************************************)
(* validate_bracets as the loop it is: one character per step              *)
(***************************************************************************)
MaxBracketLen == 4

BracketAlphabet == {"{", "}", "a"}

RECURSIVE StringsUpTo(_)
StringsUpTo(n) ==
    IF n = 0 THEN {""}
    ELSE {p \o c : p \in StringsUpTo(n - 1), c \in BracketAlphabet \cup {""}}

InitBrackets ==
    /\ InitProcess
    /\ scan \in {[prompt |-> p, idx |-> 0, stack |-> <<>>, raised |-> "running"] :
                    p \in StringsUpTo(MaxBracketLen)}

\* the body of the for loop with a '}' that pops whatever the stack holds
ValidateStepNoUnderflow(s) ==
    IF CharAt(s.prompt, s.idx + 1) = "{"
    THEN [s EXCEPT !.idx = s.idx + 1, !.stack = Append(s.stack, s.idx)]
    ELSE IF CharAt(s.prompt, s.idx + 1) = "}" /\ s.stack # <<>>
    THEN [s EXCEPT !.idx = s.idx + 1, !.stack = SubSeq(s.stack, 1, Len(s.stack) - 1)]
    ELSE [s EXCEPT !.idx = s.idx + 1]

\* the body of the for loop: push the index of a '{', pop at a '}', raise at a
\* '}' that meets an empty stack
ValidateStep(s) ==
    IF CharAt(s.prompt, s.idx + 1) = "{"
    THEN [s EXCEPT !.idx = s.idx + 1, !.stack = Append(s.stack, s.idx)]
    ELSE IF CharAt(s.prompt, s.idx + 1) = "}"
    THEN IF s.stack = <<>>
         THEN [s EXCEPT !.raised = "Unmatched closing bracket"]
         ELSE [s EXCEPT !.idx = s.idx + 1, !.stack = SubSeq(s.stack, 1, Len(s.stack) - 1)]
    ELSE [s EXCEPT !.idx = s.idx + 1]

\* after the loop: raise if a '{' is left on the stack, else return
ValidateEnd(s) ==
    [s EXCEPT !.raised = IF s.stack # <<>> THEN "Unmatched opening bracket" ELSE ""]

ScanChar ==
    /\ scan.raised = "running"
    /\ scan.idx < Len(scan.prompt)
    /\ scan' = ValidateStep(scan)
    /\ UNCHANGED <<rng, call_vars, th>>

ScanEnd ==
    /\ scan.raised = "running"
    /\ scan.idx = Len(scan.prompt)
    /\ scan' = ValidateEnd(scan)
    /\ UNCHANGED <<rng, call_vars, th>>

NextBrackets == ScanChar \/ ScanEnd

SpecBrackets == InitBrackets /\ [][NextBrackets]_vars

(***************************************************************************)
(* Properties                                                              *)
(***************************************************************************)

\* at least two calls have been made and the last has returned or raised
TwoCallsDone == ncalls >= 2 /\ pc = "idle"

\* what a caller sees of a call: how it ended, and the output text and the
\* reported seed of each record
Seen(r) == <<r.kind, r.exc, r.msg, [i \in 1..Len(r.value) |-> <<r.value[i].output, r.value[i].seed>>]>>

\* C1 (as stated): two calls of generate_prompt with the same template,
\* arguments and integer seed, whatever the seed, return the same output text
\* and the same reported seed.
C1_DeterminismAnySeed ==
    (TwoCallsDone /\ prev.call.seed = call.seed) => Seen(ret) = Seen(prev.ret)

\* C1 (amended): two calls of generate_prompt with the same template,
\* arguments and seed return the same output text and the same reported seed
\* when the seed is at least 1 (a seed below 1 is replaced by a clock value).
C1_DeterminismPositiveSeed ==
    (TwoCallsDone /\ prev.call.seed = call.seed /\ call.seed >= 1) => Seen(ret) = Seen(prev.ret)

\* C1 witness: two calls with one seed >= 1 both returned a record whose pass
\* made a random selection.
C1_Witness ==
    /\ TwoCallsDone
    /\ prev.call.seed = call.seed
    /\ call.seed >= 1
    /\ ret.kind = "record"
    /\ prev.ret.kind = "record"
    /\ pass_info.draws > 0

\* the parts of an output text between the "/" of the templates
Parts(output) == Split(output, "/")

\* C2: for a list key with m options, the first m scoped-exclusive draws made
\* under one prefix within a pass are pairwise distinct.  Template 3 draws
\* key k (m = 2) under prefix p in parts 1 and 2; template 4 draws key bc
\* (m = 2) under prefix a in parts 2 and 3.
C2_ScopedExclusiveDistinct ==
    \A i \in 1..Len(result) :
        /\ call.t = 3 => Parts(result[i].output)[1] # Parts(result[i].output)[2]
        /\ call.t = 4 => Parts(result[i].output)[2] # Parts(result[i].output)[3]

\* C3: the "@@" ledger persists across calls: two successive calls that each
\* resolve {@@:k} once, k having two options, return different options.
C3_GlobalLedgerAcrossCalls ==
    (TwoCallsDone /\ call.t = 5 /\ ret.kind = "record" /\ prev.ret.kind = "record")
        => ret.value[1].output # prev.ret.value[1].output

\* in every record of the call, the first and the last part of the output
\* (the two references {$:k} of templates 6 and 7) are the same text
StaticReferencesAgree ==
    \A i \in 1..Len(result) :
        Parts(result[i].output)[1] = Parts(result[i].output)[Len(Parts(result[i].output))]

RECURSIVE EntrypointStrings(_)
EntrypointStrings(e) ==
    IF IsStr(e) THEN {e.str}
    ELSE IF IsDict(e) THEN UNION {EntrypointStrings(e.dict[i].value) : i \in 1..Len(e.dict)}
    ELSE UNION {EntrypointStrings(e.list[i]) : i \in 1..Len(e.list)}

\* the templates (structured form) with an unbalanced string in the
\* entrypoint or in the data map
Unbalanced ==
    {t \in 1..Len(Templates) :
        /\ Templates[t].form = "dict"
        /\ \E x \in EntrypointStrings(Templates[t].entrypoint) \cup DataStrings(Templates[t].data) :
              validate_bracets(x) # ""}

\* C5: a pass over a template with an unbalanced string, in an entrypoint of
\* any shape or in the data map, fails with the bracket error and has made no
\* random selection.
C5_UnbalancedFailsBeforeDraw ==
    (call.t \in Unbalanced /\ pass_info.kind # "none")
        => /\ pass_info.kind = "PromptError"
           /\ pass_info.msg \in {"Unmatched closing bracket", "Unmatched opening bracket"}
           /\ pass_info.draws = 0

\* C6: a call that returns produced clamp(N,1,1000) * (clamp(C,0,10) + 1)
\* records, ordered by prompt slot and then by pass number, and returned a
\* bare record exactly when that number is 1.
C6_RecordCount ==
    ret.kind \in {"record", "list"} =>
        LET n == IF call.n < 1 THEN 1 ELSE IF call.n > 1000 THEN 1000 ELSE call.n
            c == IF call.c < 0 THEN 0 ELSE IF call.c > 10 THEN 10 ELSE call.c
        IN  /\ Len(ret.value) = n * (c + 1)
            /\ \A i \in 1..Len(ret.value) :
                  /\ ret.value[i].generation_info.gen_prompt_number = (i - 1) \div (c + 1)
                  /\ ret.value[i].generation_info.gen_pass_number = (i - 1) % (c + 1)
            /\ (ret.kind = "record") <=> (n * (c + 1) = 1)

\* C6 witness: a call with a prompt count above 1000 returned a sequence.
C6_Witness == ret.kind = "list" /\ call.n > 1000 /\ Len(ret.value) = 1000

\* C7: pass k+1 of a slot reads every static s of pass k as meta_last_<s>,
\* with the value s had at the end of pass k, and pass k's output text as
\* meta_last_output (the values compared as the pass's output shows them,
\* unescaped).
C7_ContinuationReadsStatics ==
    (Len(result) >= 2 /\ pass_info.kind = "ok" /\ result[Len(result)].generation_info.gen_pass_number > 0)
        => LET last == result[Len(result) - 1]
               Read(key) == IF key \in DOMAIN pass_info.data
                            THEN unescape_special_characters(pass_info.data[key].str)
                            ELSE ""
           IN  /\ \A s \in DOMAIN last.statics : Read("meta_last_" \o s) = last.statics[s]
               /\ Read("meta_last_output") = last.output

\* C8: generate_prompt_no_except never raises.
C8_WrapperNeverRaises == call.wrapped => ret.kind # "raise"

\* C9: on the self-expanding template 12 the pass fails with the engine's own
\* error kind.
C9_DepthCapOwnError ==
    (call.t = 12 /\ pass_info.kind # "none") => pass_info.kind = "PromptError"

\* C10: a seeded pass without "@@" that runs as a thread beside another
\* returns the output it returns when run alone.
C10_ThreadsIndependent ==
    \A i \in Threads :
        th[i].pc = "done" => th[i].output = RunAlone(th[i].t, th[i].seed).output

\* C11: when a pass of a call raises, the call hands its caller no result
\* record: neither text of the failing pass nor the records of the passes that
\* completed earlier in the call.
C11_FailedCallReturnsNoRecord ==
    (pc = "idle" /\ pass_info.kind \notin {"ok", "none"})
        => /\ ret.kind \in {"raise", "error_record"}
           /\ ret.value = <<>>

\* C11 witness: a pass raised after an earlier pass of the same call had
\* appended its record.
C11_Witness ==
    /\ pc = "idle"
    /\ pass_info.kind = "PromptError"
    /\ Len(result) >= 1
    /\ ret.kind \in {"raise", "error_record"}

\* the output parts of the last record of the call, when its pass returned
LastParts == Parts(result[Len(result)].output)

\* "T" or "F"
Branch(b) == IF b THEN "T" ELSE "F"

\* C12: with the argument v an integer, the comparisons of template 19 with
\* the literal 10 return the true-text exactly when the numeric relation holds:
\* > and gt iff v > 10, < and lt iff v < 10, >= and gte iff v >= 10, <= and lte
\* iff v <= 10 (v = 10 included).
C12_NumericComparisons ==
    (call.t = 19 /\ Len(result) = 1) =>
        LET v == ParseNat(Kwargs[call.kw].v)
        IN  LastParts = << Branch(v > 10), Branch(v > 10), Branch(v < 10), Branch(v < 10),
                           Branch(v >= 10), Branch(v >= 10), Branch(v <= 10), Branch(v <= 10) >>

\* C13: a literal expression whose argument text holds a bracket expression
\* (template 20) or an empty pair of brackets (template 21) fails with an
\* error and returns no text.
C13_LiteralWithBracesFails ==
    (call.t \in {20, 21} /\ pass_info.kind # "none")
        => pass_info.kind = "PromptError" /\ Len(result) = 0

\* C14: the pass over template 22 returns, and its output, exported statics,
\* number of random selections and random stream are those of the pass over
\* template 23, which is template 22 without its comments: the comments
\* yield the empty string and change neither statics, usage ledger, tracked
\* values nor the random stream, whatever is nested inside them.
C14_CommentHasNoEffect ==
    (call.t = 22 /\ pass_info.kind # "none") =>
        /\ pass_info.kind = "ok"
        /\ Len(result) = 1
        /\ result[1].output = RunAlone(23, call.seed).output
        /\ result[1].statics = RunAlone(23, call.seed).statics
        /\ pass_info.draws = RunAlone(23, call.seed).draws
        /\ rng = RunAlone(23, call.seed).rng

\* C14 witness: the pass over template 22 returned; its two exclusive draws
\* outside the comments differ and no tracked value is set.
C14_Witness ==
    /\ call.t = 22
    /\ pc = "done"
    /\ LastParts[1] \in {"ab", "ba"}
    /\ LastParts[2] = "-"

\* C15 (as stated): repeat with count 3 evaluates the bracket expression of
\* its text 3 separate times, each with its own random draw.
C15_RepeatDrawsPerCopy ==
    (call.t = 24 /\ pc = "done") => pass_info.draws = 3

\* C15 (amended): the bracket expression inside the text of a repeat is
\* resolved once, before the repeat operator runs; repeat with count 3
\* returns 3 equal copies of the resolved text, and one random draw was made.
C15_RepeatCopiesResolvedText ==
    (call.t = 24 /\ pc = "done") =>
        /\ pass_info.draws = 1
        /\ \E x \in {"a", "b", "c"} : LastParts = <<x, x, x, "">>

\* C15 witness: the pass over template 24 returned three copies.
C15_Witness == call.t = 24 /\ pc = "done" /\ Len(LastParts) = 4

\* C16: for an argument v with structural characters, unescaping the escaped
\* v gives v back, and the template that echoes the argument (template 25)
\* returns v as its output.
C16_EscapeRoundTrip ==
    (call.t = 25 /\ pass_info.kind # "none") =>
        /\ pass_info.kind = "ok"
        /\ unescape_special_characters(escape_special_characters(Kwargs[call.kw].v))
               = Kwargs[call.kw].v
        /\ result[1].output = Kwargs[call.kw].v

\* C17: with the tree entrypoint of template 26, a call that supplies
\* tags_path with paths of the tree (outdoor/cat, then outdoor) returns the
\* resolved texts of the reached nodes in path order; the error about the
\* absent path argument is raised only by a call without tags_path.
C17_TreeOfTagsWithPath ==
    (call.t = 26 /\ pass_info.kind # "none") =>
        IF "tags_path" \in DOMAIN Kwargs[call.kw]
        THEN /\ pass_info.kind = "ok"
             /\ result[1].output = "cat out v"
        ELSE /\ pass_info.kind = "PromptError"
             /\ pass_info.msg = "No 'meta_tags_path' provided in kwargs for tree of tags entrypoint."

\* the fragments occur in the selector in order and without overlapping
FragmentsOccur(fragments, selector) ==
    \E pos \in [1..Len(fragments) -> 1..Len(selector)] :
        /\ \A i \in 1..Len(fragments) :
              /\ pos[i] + Len(fragments[i]) - 1 <= Len(selector)
              /\ SubSeq(selector, pos[i], pos[i] + Len(fragments[i]) - 1) = fragments[i]
        /\ \A i \in 1..(Len(fragments) - 1) : pos[i + 1] >= pos[i] + Len(fragments[i])

\* the items of a flat dict entrypoint whose key fragments occur in the selector
MatchingItems(entrypoint, selector) ==
    {i \in 1..Len(entrypoint.dict) :
        FragmentsOccur(SplitWhitespace(entrypoint.dict[i].key), selector)}

\* C18: with the flat dict entrypoint of template 27 the pass returns the
\* value of the first key, in map order, whose whitespace-separated fragments
\* all occur in the entrypoint_selector argument in order and without
\* overlapping; it fails with an error when no key matches or the selector is
\* absent.
C18_DictEntrypointFirstMatch ==
    (call.t = 27 /\ pass_info.kind # "none") =>
        LET selector == DictGet(Kwargs[call.kw], "entrypoint_selector", "")
            hits == MatchingItems(Templates[27].entrypoint, selector)
        IN  IF selector = "" \/ hits = {}
            THEN pass_info.kind = "PromptError"
            ELSE /\ pass_info.kind = "ok"
                 /\ result[1].output =
                       Templates[27].entrypoint.dict[CHOOSE i \in hits : \A j \in hits : i <= j].value.str

\* C19: three consecutive {inc:c} of a pass return 1, 2, 3 in order and
\* leave statics[c] = "3" in the record; {dec:c} on an absent counter returns
\* -1 and leaves statics[c] = "-1".
C19_CounterOperators ==
    /\ (call.t = 28 /\ pass_info.kind # "none") =>
          /\ pass_info.kind = "ok"
          /\ result[1].output = "1 2 3"
          /\ result[1].statics = [c |-> "3"]
    /\ (call.t = 29 /\ pass_info.kind # "none") =>
          /\ pass_info.kind = "ok"
          /\ result[1].output = "-1"
          /\ result[1].statics = [c |-> "-1"]

\* C20: {+:2|3} resolves to 5 and {-:10|4} to 6 (template 30); with the
\* operands resolved from data keys a = 10 and b = 4, the sum is 14 and the
\* difference 6 (template 31).
C20_SumAndDifference ==
    /\ (call.t = 30 /\ pass_info.kind # "none") =>
          pass_info.kind = "ok" /\ result[1].output = "5/6"
    /\ (call.t = 31 /\ pass_info.kind # "none") =>
          pass_info.kind = "ok" /\ result[1].output = "14/6"

\* C21: a finished scan of validate_bracets raised exactly when the braces of
\* the string are not balanced under depth counting: the closing-bracket error
\* when some prefix holds more '}' than '{', the opening-bracket error when no
\* prefix does and the whole string holds more '{' than '}', and no error
\* otherwise; the closed form used by the passes gives the same outcome
Depth(prompt, i) ==
    Cardinality({j \in 1..i : CharAt(prompt, j) = "{"})
        - Cardinality({j \in 1..i : CharAt(prompt, j) = "}"})

C21_RaisesExactlyWhenUnbalanced ==
    scan.raised \notin {"none", "running"} =>
        /\ scan.raised = validate_bracets(scan.prompt)
        /\ (\E i \in 1..Len(scan.prompt) : Depth(scan.prompt, i) < 0)
               <=> scan.raised = "Unmatched closing bracket"
        /\ ((\A i \in 1..Len(scan.prompt) : Depth(scan.prompt, i) >= 0)
                /\ Depth(scan.prompt, Len(scan.prompt)) > 0)
               <=> scan.raised = "Unmatched opening bracket"
        /\ ((\A i \in 1..Len(scan.prompt) : Depth(scan.prompt, i) >= 0)
                /\ Depth(scan.prompt, Len(scan.prompt)) = 0)
               <=> scan.raised = ""

\* a scan has raised at a '}' that met an empty stack, after a balanced pair
C21_Witness ==
    /\ scan.raised = "Unmatched closing bracket"
    /\ scan.prompt = "{}}{"

\* C22: a pass over a template whose includes form a cycle (a.json includes
\* b.json, b.json includes a.json) ends with the cycle error, which names the
\* file met again
C22_CycleEndsWithCycleError ==
    (pass_info.kind # "none" /\ call.t = 32) =>
        /\ pass_info.kind = "PromptError"
        /\ StartsWith(pass_info.msg, "Circular reference detected when including '/d/")

\* C23: with the argument follow-list-of-x holding the lines "a, b" and "c"
\* (and blank lines), the value a pass of prompt slot p sees under the data key
\* meta_current_x stands for line (p mod 2): un-escaped as the output is, it is
\* that line, in the first pass of the slot and in its continuation pass
C23_FollowListLine ==
    (call.t = 36 /\ pass_info.kind = "ok" /\ result # <<>>) =>
        unescape_special_characters(pass_info.data["meta_current_x"].str)
            = <<"a, b", "c">>[(result[Len(result)].generation_info.gen_prompt_number % 2) + 1]

\* C24: the usage-ledger entry an exclusive draw consults and updates holds
\* only options of the key drawn.  In template 37 the last draw is {a@:bc}: the
\* entry it has updated (as the pass leaves it) holds only "y" and "z".
C24_LedgerSubset ==
    (call.t = 37 /\ pass_info.kind = "ok") =>
        \A i \in 1..Len(pass_info.final.usage["abc"]) :
            InList(pass_info.final.usage["abc"][i], pass_info.data["bc"].list)

\* C25: every pass of a call starts from fresh resolution state and leaves the
\* caller's template alone.  Each pass of template 38 stores a static and
\* tracks a value under names that end in its pass number and makes one
\* exclusive draw: the pass starts without tracked keys and ends with its own
\* static, its own tracked key and a ledger entry of one value and no other;
\* every record returned holds the static of its own pass and no other; and
\* the template of the call is the one passed.
TrackedKeys(data) == {key \in DOMAIN data : StartsWith(key, "track_")}

C26_NoBracketRemains ==
    (call.t = 39 /\ pass_info.kind # "none") =>
        /\ pass_info.kind = "ok"
        /\ pass_info.draws = 1
        /\ \A i \in 1..Len(result) :
               ~Contains(result[i].output, "{") /\ ~Contains(result[i].output, "}")

\* C27: the bracket expressions of a string are evaluated from left to right,
\* a nested expression before the one around it, and identical expressions
\* each on their own.  In template 40 the two identical exclusive draws are two
\* draws, recorded in the ledger in the order of the two parts of the output,
\* and differ; of the nested stores of s the outer one is the last to write,
\* and of the two stores of t the right one.
C27_ResolutionOrder ==
    (call.t = 40 /\ pass_info.kind # "none") =>
        /\ pass_info.kind = "ok"
        /\ Len(result) = 1
        /\ pass_info.draws = 2
        /\ pass_info.final.usage["pk"] = <<Parts(result[1].output)[1], Parts(result[1].output)[2]>>
        /\ Parts(result[1].output)[1] # Parts(result[1].output)[2]
        /\ result[1].statics = [s |-> "a", t |-> "2"]

\* a pass of template 40 has drawn "y" and then "x"
C27_Witness ==
    call.t = 40 /\ pass_info.kind = "ok" /\ pass_info.final.usage = [pk |-> <<"y", "x">>]

\* C28: the meta_last_ keys a pass sees come from the pass right before it in
\* the same prompt slot: pass 0 of a slot sees none, and a later pass sees,
\* beside meta_last_output, meta_last_<s> only for the statics s in the record
\* of the pass before it (template 38, whose passes store s0 and s1 in turn)
MetaLastKeys(data) == {key \in DOMAIN data : StartsWith(key, "meta_last_")}

C28_MetaLastFromPrecedingPass ==
    (call.t = 38 /\ pass_info.kind = "ok" /\ result # <<>>) =>
        IF result[Len(result)].generation_info.gen_pass_number = 0
        THEN MetaLastKeys(pass_info.data) = {}
        ELSE MetaLastKeys(pass_info.data) \subseteq
                 {"meta_last_output"}
                     \cup {"meta_last_" \o key : key \in DOMAIN result[Len(result) - 1].statics}

\* C29 as stated: the bracket expressions nested in the branch that is not
\* selected are not evaluated.  In template 41 (v = 10 selects the T branch)
\* the pass leaves the static, the ledger entry and the tracked key of the
\* selected branch only, after the two draws of that branch.
C29_UnselectedBranchNotEvaluated ==
    (call.t = 41 /\ pass_info.kind = "ok") =>
        IF Kwargs[call.kw]["v"] = "10"
        THEN /\ DOMAIN pass_info.final.static = {"k"}
             /\ DOMAIN pass_info.final.usage = {"pk"}
             /\ TrackedKeys(pass_info.final.data) = {"track_t"}
             /\ pass_info.draws = 2
        ELSE /\ DOMAIN pass_info.final.static = {"xk"}
             /\ DOMAIN pass_info.final.usage = {"qk"}
             /\ TrackedKeys(pass_info.final.data) = {"track_u"}
             /\ pass_info.draws = 2

\* C29 amended: the bracket expressions nested in both branches are evaluated
\* before the comparison, whichever branch is selected; only the text of the
\* selected branch is returned.  Every pass of template 41 leaves the statics,
\* ledger entries and tracked keys of both branches after four draws, and its
\* output starts with "T" exactly when v = 10.
C29_BothBranchesEvaluated ==
    (call.t = 41 /\ pass_info.kind # "none") =>
        /\ pass_info.kind = "ok"
        /\ Len(result) = 1
        /\ DOMAIN pass_info.final.static = {"k", "xk"}
        /\ DOMAIN pass_info.final.usage = {"pk", "qk"}
        /\ TrackedKeys(pass_info.final.data) = {"track_t", "track_u"}
        /\ pass_info.draws = 4
        /\ StartsWith(result[1].output, "T") <=> Kwargs[call.kw]["v"] = "10"
        /\ StartsWith(result[1].output, "F") <=> Kwargs[call.kw]["v"] # "10"

\* a pass that selected the T branch has memoized the static of the F branch
C29_Witness ==
    call.t = 41 /\ pass_info.kind = "ok" /\ Kwargs[call.kw]["v"] = "10"
        /\ "xk" \in DOMAIN pass_info.final.static

\* C30 as stated: the operator an expression dispatches on and the number of
\* its arguments are those of its literal text, whatever the nested expressions
\* resolve to.  {{meta_v}|T} is a key lookup and then a one-of list of two
\* items; {==:k|{d}|T|F} and {==:k|{e}|T|F} are a key lookup and then a
\* comparison with four arguments.
C30_DispatchFixedByLiteralText ==
    pass_info.kind = "ok" =>
        /\ call.t = 42 => pass_info.final.dispatched = <<(<<"", 1>>), (<<"", 2>>)>>
        /\ call.t \in {43, 44} => pass_info.final.dispatched = <<(<<"", 1>>), (<<"==", 4>>)>>

\* C30 amended: a resolved value that holds no ":" and no "|" changes neither
\* the operator nor the number of arguments.  Escaped argument values hold no
\* "|": with an argument v that holds no ":" (among them "a|b" and "{a}"),
\* {{meta_v}|T} is dispatched as its literal text reads, and so is
\* {==:k|{e}|T|F} with the options "x" and "y z" of e.
C30_DispatchFixedWithoutSeparators ==
    (pass_info.kind # "none" /\ call.t \in {42, 44}) =>
        /\ call.t = 42 /\ ~Contains(Kwargs[call.kw]["v"], ":") =>
               /\ pass_info.kind = "ok"
               /\ pass_info.final.dispatched = <<(<<"", 1>>), (<<"", 2>>)>>
        /\ call.t = 44 =>
               /\ pass_info.kind = "ok"
               /\ pass_info.final.dispatched = <<(<<"", 1>>), (<<"==", 4>>)>>

\* a pass has substituted the argument value "a|b" into the one-of list
C30_Witness ==
    /\ call.t = 42 /\ pass_info.kind = "ok" /\ Kwargs[call.kw]["v"] = "a|b"
    /\ pass_info.final.dispatched = <<(<<"", 1>>), (<<"", 2>>)>>

====
